---- MODULE Spec2Model ----
(***************************************************************************)
(* Conversation memory of Agent-Naval: the MessageProcessor orchestrator   *)
(* over the ConversationService store, the detached summary task, and the  *)
(* VectorService retry / batch layer.                                      *)
(***************************************************************************)
EXTENDS Integers, Sequences, FiniteSets, TLC

(***************************************************************************)
(* Program constants.                                                      *)
(***************************************************************************)
summaryChunkSize == 10
maxRetries == 3
retryDelayMs == 1000
\* DEFAULT_CONVERSATION_CONFIG.topicChangeThreshold, 0.7, in hundredths
topicChangeThreshold == 70
maxAttempts == 3
backoffMs == 1000
MAX_BATCH_SIZE == 100
MAX_CONCURRENT_BATCHES == 3
CHUNK_SIZE == 20
dimensions == 1024

(***************************************************************************)
(* Bounds of the model.                                                    *)
(***************************************************************************)
\* MessageProcessor.addMessage calls of one run
MaxAdds == 20
\* MessageProcessor.processMessagePair calls of one run
MaxPairs == 10
\* largest absolute value of a count shouldGenerateSummary is applied to
MaxCount == 60
\* longest list createBatchChunks is applied to
MaxItems == 100
\* recent summaries handed to generateGlobalSummary
MaxSummaries == 3
\* messages stored when the last call of a run that mixes addMessage and
\* processMessagePair starts
MaxMixed == 11
\* callers that call MessageProcessor concurrently
MaxCallers == 2
\* calls started in a run with concurrent callers
MaxRaceCalls == 3
\* message timestamps taken before the last call of a run with failing
\* store operations starts
MaxClock == 4
\* store operations that throw in one run
MaxThrows == 4
\* largest similarity score, in hundredths, detectTopicChange decides on
MaxScore == 100
\* topic segments pushed to one conversation
MaxTopics == 3
\* largest messageCount a topic segment is incremented to
MaxTopicMessages == 3

\* a chat is driven by one caller, one call at a time
Callers == {1}

\* the callers of the runs with concurrent calls
Processes == 1..MaxCallers

VARIABLES
    created,      \* the conversation node exists in the store
    status,       \* conversations/<id>/metadata/status
    session,      \* conversations/<id>/metadata: userId and startTime
    metaCount,    \* conversations/<id>/metadata/messageCount
    messages,     \* conversations/<id>/messages, in push-key order
    summaries,    \* conversations/<id>/summaries, in push-key order
    now,          \* the wall clock (new Date()), in milliseconds
    calls,        \* per caller: the MessageProcessor call in progress
    tasks,        \* detached triggerSummaryGeneration promises in flight
    returned,     \* ids of the messages handed back by completed calls
    nAdd,         \* completed MessageProcessor.addMessage calls
    nPair,        \* completed MessageProcessor.processMessagePair calls
    triggers,     \* triggerSummaryGeneration invocations, in order
    failed,       \* summary tasks that ended in the .catch handler
    initialized,  \* VectorService.initialized: the indices map is filled
    vop,          \* the VectorService call in progress
    jobs,         \* its withRetry loops: one, or one per batch chunk
    providerCalls,\* calls that reached the vector index provider in this call
    result,       \* what the last VectorService call returned or threw
    outcome,      \* how the last finished MessageProcessor call ended
    nThrown,      \* store operations that have thrown in this run
    topics,       \* conversations/<id>/topics, by key; key 0 is the id
                  \* 'initial' that createSession hands out without storing it
    topicCall,    \* the last TopicService call and how it ended
    input,        \* argument of the function under evaluation
    output        \* its value, once evaluated

convVars == <<created, metaCount, messages, summaries, now, calls, tasks,
              returned, nAdd, nPair, triggers, failed>>

vecVars == <<initialized, vop, jobs, providerCalls, result>>

fnVars == <<input, output>>

topicVars == <<topics, topicCall>>

callVars == <<outcome, nThrown>>

vars == <<convVars, status, session, vecVars, fnVars, topicVars, callVars>>

\* keys of the topics node: 0 is the id 'initial', 1.. are push keys
TopicKeys == 0..MaxTopics

\* a key with no node under it; a node holds the fields that were written
NoTopic == [status |-> "none", hasCount |-> FALSE, messageCount |-> 0]

NoTopics == [key \in TopicKeys |-> NoTopic]

\* a ProcessingResult, or the error the call threw; step and message say
\* which operation failed and with what
NoOutcome == [op |-> "none", threw |-> FALSE, success |-> FALSE,
              type |-> "none", step |-> "none", message |-> "",
              waits |-> <<>>]

\* withErrorHandling: the wait before the retry that follows the failure
\* of the attempt with this retryCount
retryDelay_Growing(retryCount) == retryDelayMs * (retryCount + 1)

retryDelay(retryCount) == retryDelayMs

\* ConversationService.exists: something is stored under the conversation
exists == created \/ \E key \in TopicKeys : topics[key].status # "none"

NotFoundMessage == "Conversation not found"

CorruptedMessage == "Metadata corrupted for conversation"

\* a check is modelled by the message of the error it throws, Ok when it
\* returns
Ok == ""

\* ConversationService.getMetadata: the error it throws.  The metadata node
\* is written by createSession.
metadataError_NeverThrows == Ok

metadataError_OnlyNotFound == IF ~created THEN NotFoundMessage ELSE Ok

metadataError ==
    IF ~exists THEN NotFoundMessage
    ELSE IF ~created THEN CorruptedMessage
    ELSE Ok

Returned_Success(op) == [NoOutcome EXCEPT !.op = op, !.success = TRUE]

\* messages of the errors the store rejects an operation with
StorageErrors == {"PERMISSION_DENIED: Permission denied", "Network error"}

\* error.message.includes('not found')
IncludesNotFound(message) == message = NotFoundMessage

\* the catch of processMessagePair
catchType_AlwaysStorage(message) == "STORAGE_ERROR"

catchType(message) ==
    IF IncludesNotFound(message) THEN "CONVERSATION_NOT_FOUND"
    ELSE "STORAGE_ERROR"

\* an error leaves withErrorHandling: processMessagePair catches it and
\* returns a result, addMessage lets it through to its caller
Propagated(op, step, message, waits) ==
    IF op = "pair"
    THEN [op |-> op, threw |-> FALSE, success |-> FALSE,
          type |-> catchType(message), step |-> step, message |-> message,
          waits |-> waits]
    ELSE [op |-> op, threw |-> TRUE, success |-> FALSE, type |-> "none",
          step |-> step, message |-> message, waits |-> waits]

Idle == [pc |-> "idle", op |-> "none", phase |-> 0, meta |-> 0, cs |-> 0,
         retry |-> 0, msg |-> <<>>, ids |-> <<>>, waits |-> <<>>]

(***************************************************************************)
(* MessageProcessor.shouldGenerateSummary                                  *)
(***************************************************************************)
\* the remainder operator of the language: the sign of the dividend
JsRemainder(a, b) == IF a >= 0 THEN a % b ELSE -((-a) % b)

shouldGenerateSummary_ZeroIncluded(messageCount) ==
    JsRemainder(messageCount, summaryChunkSize) = 0

shouldGenerateSummary(messageCount) ==
    messageCount > 0 /\ JsRemainder(messageCount, summaryChunkSize) = 0

(***************************************************************************)
(* ConversationService.getLastMessages: the entries in key order, sorted   *)
(* by timestamp descending (Array.prototype.sort is stable: entries with   *)
(* equal timestamps keep their key order), cut to the first count.         *)
(***************************************************************************)
SortPosition(msgs, i) ==
    1 + Cardinality({j \in 1..Len(msgs) :
            \/ msgs[j].timestamp > msgs[i].timestamp
            \/ msgs[j].timestamp = msgs[i].timestamp /\ j < i})

SortByTimestampDesc(msgs) ==
    LET position == [i \in 1..Len(msgs) |-> SortPosition(msgs, i)] IN
    [k \in 1..Len(msgs) |->
        msgs[CHOOSE i \in 1..Len(msgs) : position[i] = k]]

Min(a, b) == IF a < b THEN a ELSE b

getLastMessages_OldestFirst(msgs, count) ==
    SubSeq(msgs, 1, Min(count, Len(msgs)))

getLastMessages(msgs, count) ==
    SubSeq(SortByTimestampDesc(msgs), 1, Min(count, Len(msgs)))

\* the userId the client passes to createSession
UserId == "user-1"

NoSession == [userId |-> "", startTime |-> 0]

ConvInit ==
    /\ created = FALSE
    /\ status = "none"
    /\ session = NoSession
    /\ metaCount = 0
    /\ messages = <<>>
    /\ summaries = <<>>
    /\ now = 0
    /\ calls = [p \in Processes |-> Idle]
    /\ tasks = {}
    /\ returned = <<>>
    /\ nAdd = 0
    /\ nPair = 0
    /\ triggers = <<>>
    /\ failed = {}

NoError == [type |-> "none", retryable |-> FALSE, message |-> "", original |-> ""]

Call(name, indexName, lengths, threshold) ==
    [name |-> name, indexName |-> indexName, lengths |-> lengths,
     threshold |-> threshold]

NoStats == [totalItems |-> 0, processedItems |-> 0, successfulItems |-> 0,
            failedItems |-> 0]

NoCall == [call |-> Call("none", "none", <<>>, <<>>), i |-> 0, stats |-> NoStats]

NoResult == [call |-> Call("none", "none", <<>>, <<>>), status |-> "none",
             error |-> NoError, value |-> <<>>]

VecIdle ==
    /\ initialized = FALSE
    /\ vop = NoCall
    /\ jobs = <<>>
    /\ providerCalls = 0
    /\ result = NoResult

FnIdle ==
    /\ input = 0
    /\ output = <<>>

NoTopicCall == [op |-> "none", topicId |-> 0, outcome |-> "none"]

TopicIdle ==
    /\ topics = NoTopics
    /\ topicCall = NoTopicCall

CallIdle ==
    /\ outcome = NoOutcome
    /\ nThrown = 0

Init == ConvInit /\ VecIdle /\ FnIdle /\ TopicIdle /\ CallIdle

(***************************************************************************)
(* ConversationService.createSession                                       *)
(***************************************************************************)
CreateSession ==
    /\ UNCHANGED <<vecVars, fnVars, callVars>>
    /\ ~created
    /\ created' = TRUE
    /\ status' = "active"
    /\ session' = [userId |-> UserId, startTime |-> now]
    /\ metaCount' = 0
    /\ messages' = <<>>
    /\ summaries' = <<>>
    /\ topics' = NoTopics
    /\ UNCHANGED topicCall
    /\ UNCHANGED <<now, calls, tasks, returned, nAdd, nPair, triggers, failed>>

(***************************************************************************)
(* withErrorHandling around getMetadata when the conversation is missing:  *)
(* the lookup throws "not found", is retried maxRetries times, and the     *)
(* error then reaches the caller.                                          *)
(***************************************************************************)
GetMetadata_NotFound(p) ==
    /\ UNCHANGED <<status, session, vecVars, fnVars, topicVars, callVars>>
    /\ metadataError = NotFoundMessage
    /\ calls[p].retry < maxRetries
    /\ \/ /\ calls[p].pc = "idle"
          /\ \E op \in {"add", "pair"} :
                calls' = [calls EXCEPT ![p] =
                    [Idle EXCEPT !.pc = "retryMeta", !.op = op, !.retry = 1,
                                 !.waits = <<retryDelay(0)>>]]
       \/ /\ calls[p].pc = "retryMeta"
          /\ calls' = [calls EXCEPT ![p].retry = @ + 1,
                ![p].waits = Append(@, retryDelay(calls[p].retry))]
    /\ UNCHANGED <<created, metaCount, messages, summaries, now, tasks,
                   returned, nAdd, nPair, triggers, failed>>

\* the conversation node exists and holds no metadata: getMetadata throws
\* "Metadata corrupted", which is retried like any error
GetMetadata_Corrupted(p) ==
    /\ UNCHANGED <<status, session, vecVars, fnVars, topicVars, callVars>>
    /\ metadataError = CorruptedMessage
    /\ calls[p].retry < maxRetries
    /\ \/ /\ calls[p].pc = "idle"
          /\ \E op \in {"add", "pair"} :
                calls' = [calls EXCEPT ![p] =
                    [Idle EXCEPT !.pc = "retryMeta", !.op = op, !.retry = 1,
                                 !.waits = <<retryDelay(0)>>]]
       \/ /\ calls[p].pc = "retryMeta"
          /\ calls' = [calls EXCEPT ![p].retry = @ + 1,
                ![p].waits = Append(@, retryDelay(calls[p].retry))]
    /\ UNCHANGED <<created, metaCount, messages, summaries, now, tasks,
                   returned, nAdd, nPair, triggers, failed>>

GetMetadata_GiveUp(p) ==
    /\ UNCHANGED <<status, session, vecVars, fnVars, topicVars, nThrown>>
    /\ metadataError # Ok
    /\ calls[p].pc = "retryMeta"
    /\ calls[p].retry = maxRetries
    /\ calls' = [calls EXCEPT ![p] = Idle]
    /\ outcome' = Propagated(calls[p].op, "getMetadata", metadataError,
                             calls[p].waits)
    /\ UNCHANGED <<created, metaCount, messages, summaries, now, tasks,
                   returned, nAdd, nPair, triggers, failed>>

(***************************************************************************)
(* MessageProcessor.addMessage, first step: the caller has built the       *)
(* message (timestamp: new Date()), conversationService.getMetadata reads  *)
(* the counter.                                                            *)
(***************************************************************************)
AddMessage_GetMetadata(p, role, toolCalls) ==
    /\ UNCHANGED <<status, session, vecVars, fnVars, topicVars, callVars>>
    /\ metadataError = Ok
    /\ \/ calls[p].pc = "idle"
       \/ calls[p].pc = "retryMeta" /\ calls[p].op = "add"
    /\ now' = now + 1
    /\ calls' = [calls EXCEPT ![p] =
          [Idle EXCEPT !.pc = "store", !.op = "add", !.phase = 1,
                       !.meta = metaCount,
                       !.msg = [role |-> role, toolCalls |-> toolCalls,
                                timestamp |-> now + 1]]]
    /\ UNCHANGED <<created, metaCount, messages, summaries, tasks, returned,
                   nAdd, nPair, triggers, failed>>

(***************************************************************************)
(* MessageProcessor.processMessagePair, first step: getMetadata, then the  *)
(* user message is built.                                                  *)
(***************************************************************************)
ProcessMessagePair_GetMetadata(p) ==
    /\ UNCHANGED <<status, session, vecVars, fnVars, topicVars, callVars>>
    /\ metadataError = Ok
    /\ \/ calls[p].pc = "idle"
       \/ calls[p].pc = "retryMeta" /\ calls[p].op = "pair"
    /\ now' = now + 1
    /\ calls' = [calls EXCEPT ![p] =
          [Idle EXCEPT !.pc = "store", !.op = "pair", !.phase = 1,
                       !.meta = metaCount,
                       !.msg = [role |-> "user", toolCalls |-> FALSE,
                                timestamp |-> now + 1]]]
    /\ UNCHANGED <<created, metaCount, messages, summaries, tasks, returned,
                   nAdd, nPair, triggers, failed>>

(***************************************************************************)
(* ConversationService.addMessage: pushData appends the message under a    *)
(* new key, getMessageCount reads the counter, updateData writes it + 1.   *)
(***************************************************************************)
StoreMessage_Push(p) ==
    /\ UNCHANGED <<status, session, vecVars, fnVars, topicVars, callVars>>
    /\ calls[p].pc = "store"
    /\ LET id == Len(messages) + 1 IN
        /\ messages' = Append(messages,
              [id |-> id, role |-> calls[p].msg.role,
               toolCalls |-> calls[p].msg.toolCalls,
               timestamp |-> calls[p].msg.timestamp])
        /\ calls' = [calls EXCEPT ![p].pc = "csRead",
                                  ![p].ids = Append(@, id)]
    /\ UNCHANGED <<created, metaCount, summaries, now, tasks, returned, nAdd,
                   nPair, triggers, failed>>

\* the messageCount that conversationService.addMessage writes
countAfterAppend_Unchanged(count) == count

countAfterAppend_CountsTwice(count) == count + 2

countAfterAppend(count) == count + 1

StoreMessage_ReadCount(p) ==
    /\ UNCHANGED <<status, session, vecVars, fnVars, topicVars, callVars>>
    /\ calls[p].pc = "csRead"
    /\ calls' = [calls EXCEPT ![p].pc = "csUpdate", ![p].cs = metaCount]
    /\ UNCHANGED <<created, metaCount, messages, summaries, now, tasks,
                   returned, nAdd, nPair, triggers, failed>>

StoreMessage_UpdateCount(p) ==
    /\ UNCHANGED <<status, session, vecVars, fnVars, topicVars, callVars>>
    /\ calls[p].pc = "csUpdate"
    /\ metaCount' = countAfterAppend(calls[p].cs)
    /\ \/ /\ calls[p].op = "pair" /\ calls[p].phase = 1
          /\ now' = now + 1
          /\ calls' = [calls EXCEPT ![p].pc = "store", ![p].phase = 2,
                ![p].msg = [role |-> "assistant", toolCalls |-> FALSE,
                            timestamp |-> now + 1]]
       \/ /\ ~(calls[p].op = "pair" /\ calls[p].phase = 1)
          /\ calls' = [calls EXCEPT ![p].pc = "mpUpdate", ![p].retry = 0,
                                    ![p].waits = <<>>]
          /\ UNCHANGED now
    /\ UNCHANGED <<created, messages, summaries, tasks, returned, nAdd, nPair,
                   triggers, failed>>

(***************************************************************************)
(* The tail of addMessage / processMessagePair: newCount, updateMetadata,  *)
(* the detached triggerSummaryGeneration, and the return.                  *)
(***************************************************************************)
NewCount_DoubleCount(c) == c.meta + 1 + (IF c.op = "pair" THEN 2 ELSE 1)

NewCount_PreIncrement(c) == c.meta

NewCount(c) == c.meta + (IF c.op = "pair" THEN 2 ELSE 1)

CallNo == nAdd + nPair + 1

\* the call awaits the summary task instead of detaching it
Finish_AwaitSummary(p) ==
    /\ UNCHANGED <<status, session, vecVars, fnVars, topicVars, nThrown>>
    /\ calls[p].pc = "mpUpdate"
    /\ LET newCount == NewCount(calls[p]) IN
        /\ metaCount' = newCount
        /\ IF shouldGenerateSummary(newCount)
           THEN /\ tasks' = tasks \cup {[call |-> CallNo, n |-> newCount,
                                        pc |-> "fetch", window |-> <<>>,
                                        seen |-> 0]}
                /\ triggers' = Append(triggers,
                      [call |-> CallNo, n |-> newCount, op |-> calls[p].op])
                /\ calls' = [calls EXCEPT ![p].pc = "awaitSummary"]
                /\ UNCHANGED <<returned, nAdd, nPair, outcome>>
           ELSE /\ returned' = returned \o calls[p].ids
                /\ nAdd' = nAdd + (IF calls[p].op = "add" THEN 1 ELSE 0)
                /\ nPair' = nPair + (IF calls[p].op = "pair" THEN 1 ELSE 0)
                /\ calls' = [calls EXCEPT ![p] = Idle]
                /\ outcome' = Returned_Success(calls[p].op)
                /\ UNCHANGED <<tasks, triggers>>
    /\ UNCHANGED <<created, messages, summaries, now, failed>>

Finish(p) ==
    /\ UNCHANGED <<status, session, vecVars, fnVars, topicVars, nThrown>>
    /\ calls[p].pc = "mpUpdate"
    /\ LET newCount == NewCount(calls[p]) IN
        /\ metaCount' = newCount
        /\ IF shouldGenerateSummary(newCount)
           THEN /\ tasks' = tasks \cup {[call |-> CallNo, n |-> newCount,
                                        pc |-> "fetch", window |-> <<>>,
                                        seen |-> 0]}
                /\ triggers' = Append(triggers,
                      [call |-> CallNo, n |-> newCount, op |-> calls[p].op])
           ELSE UNCHANGED <<tasks, triggers>>
    /\ returned' = returned \o calls[p].ids
    /\ nAdd' = nAdd + (IF calls[p].op = "add" THEN 1 ELSE 0)
    /\ nPair' = nPair + (IF calls[p].op = "pair" THEN 1 ELSE 0)
    /\ calls' = [calls EXCEPT ![p] = Idle]
    /\ outcome' = Returned_Success(calls[p].op)
    /\ UNCHANGED <<created, messages, summaries, now, failed>>

(***************************************************************************)
(* MessageProcessor.getMessagesForSummary and triggerSummaryGeneration,    *)
(* running detached from the call that started them.                       *)
(***************************************************************************)
HasPendingToolCall(window) ==
    /\ Len(window) > 0
    /\ window[Len(window)].role = "assistant"
    /\ window[Len(window)].toolCalls

SliceLast(s, k) == SubSeq(s, IF Len(s) > k THEN Len(s) - k + 1 ELSE 1, Len(s))

Ids(window) == [k \in 1..Len(window) |-> window[k].id]

Summary_FetchWindow(t) ==
    /\ UNCHANGED <<status, session, vecVars, fnVars, topicVars, callVars>>
    /\ t.pc = "fetch"
    /\ LET window == getLastMessages(messages, 10) IN
        tasks' = (tasks \ {t}) \cup
            {[t EXCEPT !.pc = IF HasPendingToolCall(window)
                                THEN "fetchExtra" ELSE "create",
                       !.window = Ids(window),
                       !.seen = Len(messages)]}
    /\ UNCHANGED <<created, metaCount, messages, summaries, now, calls,
                   returned, nAdd, nPair, triggers, failed>>

Summary_FetchExtra(t) ==
    /\ UNCHANGED <<status, session, vecVars, fnVars, topicVars, callVars>>
    /\ t.pc = "fetchExtra"
    /\ LET extraContext == getLastMessages(messages, 11) IN
        tasks' = (tasks \ {t}) \cup
            {[t EXCEPT !.pc = "create",
                       !.window = IF Len(extraContext) > 10
                                  THEN Ids(SliceLast(extraContext, 11))
                                  ELSE t.window,
                       !.seen = Len(messages)]}
    /\ UNCHANGED <<created, metaCount, messages, summaries, now, calls,
                   returned, nAdd, nPair, triggers, failed>>

Summary_Create(t) ==
    /\ UNCHANGED <<status, session, vecVars, fnVars, topicVars, callVars>>
    /\ t.pc = "create"
    /\ summaries' = Append(summaries,
          [level |-> "recent", content |-> t.window, call |-> t.call, n |-> t.n])
    /\ tasks' = tasks \ {t}
    /\ UNCHANGED <<created, metaCount, messages, now, calls, returned, nAdd,
                   nPair, triggers, failed>>

Summary_Fail(t) ==
    /\ UNCHANGED <<status, session, vecVars, fnVars, topicVars, callVars>>
    /\ failed' = failed \cup {[call |-> t.call, n |-> t.n, attempts |-> 1]}
    /\ tasks' = tasks \ {t}
    /\ UNCHANGED <<created, metaCount, messages, summaries, now, calls,
                   returned, nAdd, nPair, triggers>>

(***************************************************************************)
(* One chat driven through one entry point: the roles alternate, user      *)
(* first, as a chat of single-answer turns produces them.                  *)
(***************************************************************************)
ExpectedRole(n) == IF n % 2 = 1 THEN "user" ELSE "assistant"

\* the messages of a run that may carry tool calls: the 10th, newest of the
\* first chunk, and the 2nd, oldest of the ten newest once the 11th is stored
ToolCallAt == {2, 10}

ToolCallChoices(n) == IF n \in ToolCallAt THEN BOOLEAN ELSE {FALSE}

Next ==
    \/ CreateSession
    \/ \E p \in Callers :
        \/ GetMetadata_NotFound(p)
        \/ GetMetadata_GiveUp(p)
        \/ /\ nPair = 0
           /\ nAdd < MaxAdds
           /\ \E toolCalls \in ToolCallChoices(Len(messages) + 1) :
                AddMessage_GetMetadata(p, ExpectedRole(Len(messages) + 1),
                                       toolCalls)
        \/ /\ nAdd = 0
           /\ nPair < MaxPairs
           /\ ProcessMessagePair_GetMetadata(p)
        \/ StoreMessage_Push(p)
        \/ StoreMessage_ReadCount(p)
        \/ StoreMessage_UpdateCount(p)
        \/ Finish(p)
    \/ \E t \in tasks : Summary_FetchWindow(t)
    \/ \E t \in tasks : Summary_FetchExtra(t)
    \/ \E t \in tasks : Summary_Create(t)
    \/ \E t \in tasks : Summary_Fail(t)

Spec == Init /\ [][Next]_vars

(***************************************************************************)
(* One chat driven through both entry points, in any order: a turn is      *)
(* stored by one processMessagePair call or message by message.            *)
(***************************************************************************)
NextMixed ==
    \/ CreateSession
    \/ \E p \in Callers, toolCalls \in ToolCallChoices(Len(messages) + 1) :
          Len(messages) < MaxMixed
            /\ AddMessage_GetMetadata(p, ExpectedRole(Len(messages) + 1),
                                      toolCalls)
    \/ \E p \in Callers :
          Len(messages) < MaxMixed /\ ProcessMessagePair_GetMetadata(p)
    \/ \E p \in Callers : StoreMessage_Push(p)
    \/ \E p \in Callers : StoreMessage_ReadCount(p)
    \/ \E p \in Callers : StoreMessage_UpdateCount(p)
    \/ \E p \in Callers : Finish(p)
    \/ \E t \in tasks : Summary_FetchWindow(t)
    \/ \E t \in tasks : Summary_FetchExtra(t)
    \/ \E t \in tasks : Summary_Create(t)
    \/ \E t \in tasks : Summary_Fail(t)

SpecMixed == Init /\ [][NextMixed]_vars

(***************************************************************************)
(* which writes status and lastActivity and leaves messageCount alone.     *)
(* lastActivity is written by every update of the metadata and read by     *)
(* nothing that decides; it is not part of the state.                      *)
(***************************************************************************)
\* the metadata node as it is stored
Metadata ==
    [status |-> status, messageCount |-> metaCount,
     userId |-> session.userId, startTime |-> session.startTime]

\* set() of the node: the children that data does not name are removed
updateData_Set(node, data) ==
    [k \in DOMAIN node |->
        IF k \in DOMAIN data THEN data[k]
        ELSE IF k = "messageCount" \/ k = "startTime" THEN 0 ELSE ""]

\* BaseService.updateData, update() of the node: the children that data
\* names are written, the others are left as they are
updateData(node, data) ==
    [k \in DOMAIN node |-> IF k \in DOMAIN data THEN data[k] ELSE node[k]]

CompleteSession ==
    /\ UNCHANGED <<vecVars, fnVars, topicVars, callVars>>
    /\ created
    /\ status = "active"
    /\ LET metadata == updateData(Metadata, [status |-> "completed"]) IN
        /\ status' = metadata.status
        /\ metaCount' = metadata.messageCount
        /\ session' = [userId |-> metadata.userId,
                       startTime |-> metadata.startTime]
    /\ UNCHANGED <<created, messages, summaries, now, calls, tasks, returned,
                   nAdd, nPair, triggers, failed>>

(***************************************************************************)
(* Concurrent callers on one conversation.  Each await of a call is a step *)
(* of its own, so the calls interleave at the store operations; nothing in *)
(* MessageProcessor or ConversationService orders them.                    *)
(***************************************************************************)
Started ==
    nAdd + nPair + Cardinality({p \in Processes : calls[p].pc # "idle"})

NextRace ==
    \/ CreateSession
    \/ CompleteSession
    \/ \E p \in Processes :
          Started < MaxRaceCalls
            /\ AddMessage_GetMetadata(p, ExpectedRole(Len(messages) + 1), FALSE)
    \/ \E p \in Processes :
          Started < MaxRaceCalls /\ ProcessMessagePair_GetMetadata(p)
    \/ \E p \in Processes : StoreMessage_Push(p)
    \/ \E p \in Processes : StoreMessage_ReadCount(p)
    \/ \E p \in Processes : StoreMessage_UpdateCount(p)
    \/ \E p \in Processes : Finish(p)

SpecRace == Init /\ [][NextRace]_vars

(***************************************************************************)
(* The same runs with two callers: at most two calls are in progress at a  *)
(* time, whatever the number of calls.                                     *)
(***************************************************************************)
TwoCallers == {1, 2}

NextTwoCallers ==
    \/ CreateSession
    \/ CompleteSession
    \/ \E p \in TwoCallers :
          Started < MaxRaceCalls
            /\ AddMessage_GetMetadata(p, ExpectedRole(Len(messages) + 1), FALSE)
    \/ \E p \in TwoCallers :
          Started < MaxRaceCalls /\ ProcessMessagePair_GetMetadata(p)
    \/ \E p \in TwoCallers : StoreMessage_Push(p)
    \/ \E p \in TwoCallers : StoreMessage_ReadCount(p)
    \/ \E p \in TwoCallers : StoreMessage_UpdateCount(p)
    \/ \E p \in TwoCallers : Finish(p)

SpecTwoCallers == Init /\ [][NextTwoCallers]_vars

(***************************************************************************)
(* A chat whose addMessage calls start to overlap late: the first          *)
(* OverlapFrom calls are made one at a time, after them the callers of     *)
(* Processes call concurrently, next to the detached summary tasks.        *)
(***************************************************************************)
OverlapFrom == summaryChunkSize - 2

NextOverlap ==
    \/ CreateSession
    \/ \E p \in Processes :
          /\ Started < OverlapFrom + MaxRaceCalls
          /\ p \in Callers \/ nAdd >= OverlapFrom
          /\ AddMessage_GetMetadata(p, ExpectedRole(Len(messages) + 1), FALSE)
    \/ \E p \in Processes : StoreMessage_Push(p)
    \/ \E p \in Processes : StoreMessage_ReadCount(p)
    \/ \E p \in Processes : StoreMessage_UpdateCount(p)
    \/ \E p \in Processes : Finish(p)
    \/ \E t \in tasks : Summary_FetchWindow(t)
    \/ \E t \in tasks : Summary_Create(t)
    \/ \E t \in tasks : Summary_Fail(t)

SpecOverlap == Init /\ [][NextOverlap]_vars

(***************************************************************************)
(* Store operations that throw.  withErrorHandling runs its operation      *)
(* again, after retryDelayMs, until it has failed maxRetries + 1 times;    *)
(* then the error leaves it.  The operation of the STORE_MESSAGE step of   *)
(* processMessagePair is the closure with both conversationService         *)
(* .addMessage calls, so a retry starts again at the user message.         *)
(***************************************************************************)
GetMetadata_Throws(p, op, message) ==
    /\ UNCHANGED <<status, session, vecVars, fnVars, topicVars>>
    /\ metadataError = Ok
    /\ nThrown < MaxThrows
    /\ \/ calls[p].pc = "idle"
       \/ calls[p].pc = "retryMeta" /\ calls[p].op = op
    /\ nThrown' = nThrown + 1
    /\ IF calls[p].retry < maxRetries
       THEN /\ calls' = [calls EXCEPT ![p] =
                  [Idle EXCEPT !.pc = "retryMeta", !.op = op,
                               !.retry = calls[p].retry + 1,
                               !.waits = Append(calls[p].waits,
                                                retryDelay(calls[p].retry))]]
            /\ UNCHANGED outcome
       ELSE /\ calls' = [calls EXCEPT ![p] = Idle]
            /\ outcome' = Propagated(op, "getMetadata", message,
                                     calls[p].waits)
    /\ UNCHANGED <<created, metaCount, messages, summaries, now, tasks,
                   returned, nAdd, nPair, triggers, failed>>

\* pushData, getMessageCount or updateData of conversationService.addMessage
StoreMessage_Throws(p, message) ==
    /\ UNCHANGED <<status, session, vecVars, fnVars, topicVars>>
    /\ calls[p].pc \in {"store", "csRead", "csUpdate"}
    /\ nThrown < MaxThrows
    /\ nThrown' = nThrown + 1
    /\ IF calls[p].retry < maxRetries
       THEN IF calls[p].op = "pair"
            THEN /\ now' = now + 1
                 /\ calls' = [calls EXCEPT ![p].pc = "store", ![p].phase = 1,
                       ![p].retry = @ + 1, ![p].cs = 0, ![p].ids = <<>>,
                       ![p].waits = Append(@, retryDelay(calls[p].retry)),
                       ![p].msg = [role |-> "user", toolCalls |-> FALSE,
                                   timestamp |-> now + 1]]
                 /\ UNCHANGED outcome
            ELSE /\ calls' = [calls EXCEPT ![p].pc = "store",
                       ![p].retry = @ + 1, ![p].cs = 0, ![p].ids = <<>>,
                       ![p].waits = Append(@, retryDelay(calls[p].retry))]
                 /\ UNCHANGED <<now, outcome>>
       ELSE /\ calls' = [calls EXCEPT ![p] = Idle]
            /\ outcome' = Propagated(calls[p].op, calls[p].pc, message,
                                     calls[p].waits)
            /\ UNCHANGED now
    /\ UNCHANGED <<created, metaCount, messages, summaries, tasks, returned,
                   nAdd, nPair, triggers, failed>>

\* updateMetadata of updateConversationMetadata
UpdateMetadata_Throws(p, message) ==
    /\ UNCHANGED <<status, session, vecVars, fnVars, topicVars>>
    /\ calls[p].pc = "mpUpdate"
    /\ nThrown < MaxThrows
    /\ nThrown' = nThrown + 1
    /\ IF calls[p].retry < maxRetries
       THEN /\ calls' = [calls EXCEPT ![p].retry = @ + 1,
                  ![p].waits = Append(@, retryDelay(calls[p].retry))]
            /\ UNCHANGED outcome
       ELSE /\ calls' = [calls EXCEPT ![p] = Idle]
            /\ outcome' = Propagated(calls[p].op, "updateMetadata", message,
                                     calls[p].waits)
    /\ UNCHANGED <<created, metaCount, messages, summaries, now, tasks,
                   returned, nAdd, nPair, triggers, failed>>

NextFail ==
    \/ CreateSession
    \/ \E p \in Callers : GetMetadata_NotFound(p)
    \/ \E p \in Callers : GetMetadata_GiveUp(p)
    \/ \E p \in Callers, op \in {"add", "pair"}, message \in StorageErrors :
          now < MaxClock /\ GetMetadata_Throws(p, op, message)
    \/ \E p \in Callers :
          now < MaxClock
            /\ AddMessage_GetMetadata(p, ExpectedRole(Len(messages) + 1), FALSE)
    \/ \E p \in Callers : now < MaxClock /\ ProcessMessagePair_GetMetadata(p)
    \/ \E p \in Callers : StoreMessage_Push(p)
    \/ \E p \in Callers : StoreMessage_ReadCount(p)
    \/ \E p \in Callers : StoreMessage_UpdateCount(p)
    \/ \E p \in Callers : Finish(p)
    \/ \E p \in Callers, message \in StorageErrors :
          StoreMessage_Throws(p, message)
    \/ \E p \in Callers, message \in StorageErrors :
          UpdateMetadata_Throws(p, message)

SpecFail == Init /\ [][NextFail]_vars

(***************************************************************************)
(* A chat during which the store goes down and stays down: until the first *)
(* throw every store operation succeeds, from then on every one throws.    *)
(* The detached summary tasks read and write the same store.               *)
(***************************************************************************)
StoreUp == nThrown = 0

NextOutage ==
    \/ StoreUp /\ CreateSession
    \/ \E p \in Callers : GetMetadata_NotFound(p)
    \/ \E p \in Callers : GetMetadata_GiveUp(p)
    \/ \E p \in Callers, toolCalls \in ToolCallChoices(Len(messages) + 1) :
          /\ StoreUp /\ nPair = 0 /\ nAdd < MaxAdds
          /\ AddMessage_GetMetadata(p, ExpectedRole(Len(messages) + 1),
                                    toolCalls)
    \/ \E p \in Callers :
          /\ StoreUp /\ nAdd = 0 /\ nPair < MaxPairs
          /\ ProcessMessagePair_GetMetadata(p)
    \/ \E p \in Callers, message \in StorageErrors :
          /\ nPair = 0 /\ nAdd < MaxAdds
          /\ GetMetadata_Throws(p, "add", message)
    \/ \E p \in Callers, message \in StorageErrors :
          /\ nAdd = 0 /\ nPair < MaxPairs
          /\ GetMetadata_Throws(p, "pair", message)
    \/ \E p \in Callers : StoreUp /\ StoreMessage_Push(p)
    \/ \E p \in Callers : StoreUp /\ StoreMessage_ReadCount(p)
    \/ \E p \in Callers : StoreUp /\ StoreMessage_UpdateCount(p)
    \/ \E p \in Callers : StoreUp /\ Finish(p)
    \/ \E p \in Callers, message \in StorageErrors :
          StoreMessage_Throws(p, message)
    \/ \E p \in Callers, message \in StorageErrors :
          UpdateMetadata_Throws(p, message)
    \/ \E t \in tasks : StoreUp /\ Summary_FetchWindow(t)
    \/ \E t \in tasks : StoreUp /\ Summary_FetchExtra(t)
    \/ \E t \in tasks : StoreUp /\ Summary_Create(t)
    \/ \E t \in tasks : Summary_Fail(t)

SpecOutage == Init /\ [][NextOutage]_vars

(***************************************************************************)
(* VectorService.  One client calls the service, one call at a time.  A    *)
(* vector is modelled by its length, an entry list by the lengths of its   *)
(* vectors, an error by its type, flag and message, a similarity score by  *)
(* its value in hundredths.  jobs holds the withRetry loops of the call in *)
(* progress (one per chunk for upsertBatch); providerCalls counts the      *)
(* calls issued to the index provider by the current or last call, and     *)
(* result is the outcome of the last call, until the next one starts.      *)
(***************************************************************************)
IndexNames == {"KNOWLEDGE", "CONVERSATIONS"}

RequestedNames == IndexNames \cup {"OTHER"}

VectorLengths == {0, dimensions - 1, dimensions, dimensions + 1}

ThresholdOptions == {<<>>, <<90>>}

Responses == {<<>>, <<95, 70, 69>>, <<69, 90, 70, 89, 95>>}

\* messages of the errors the index provider rejects a call with
ProviderErrors == {"Request timeout", "fetch failed"}

IncludesTimeout(message) == message = "Request timeout"

RawError(message) ==
    [type |-> "Error", retryable |-> FALSE, message |-> message, original |-> ""]

\* the message of the result is the one of the configuration
handleError(error, type) ==
    [type |-> type,
     retryable |-> (type = "CONNECTION_ERROR" \/ type = "OPERATION_ERROR"
                    \/ IncludesTimeout(error.message)),
     message |-> "Failed to", original |-> error.message]

FirstThrown(a, b) == IF a # Ok THEN a ELSE b

validateVector(indexName, length) ==
    IF indexName \notin IndexNames THEN "Invalid index name"
    ELSE IF length # dimensions THEN "Vector dimensions mismatch"
    ELSE Ok

getIndex(indexName) ==
    IF initialized /\ indexName \in IndexNames THEN Ok ELSE "Invalid index name"

RECURSIVE Pow2(_)
Pow2(n) == IF n <= 0 THEN 1 ELSE 2 * Pow2(n - 1)

delayMs_Constant(attempt) == backoffMs

delayMs(attempt) == backoffMs * Pow2(attempt - 1)

Job(pc, type, startIndex, size) ==
    [pc |-> pc, attempt |-> IF pc = "call" THEN 1 ELSE 0, waits |-> <<>>,
     type |-> type, err |-> NoError, startIndex |-> startIndex,
     size |-> size, scores |-> <<>>]

Thrown(call, error) ==
    [call |-> call, status |-> "thrown", error |-> error, value |-> <<>>]

Returned(call, value) ==
    [call |-> call, status |-> "returned", error |-> NoError, value |-> value]

Initialize ==
    /\ UNCHANGED <<status, session, convVars, fnVars, topicVars, callVars>>
    /\ ~initialized
    /\ vop = NoCall
    /\ initialized' = TRUE
    /\ UNCHANGED <<vop, jobs, providerCalls, result>>

\* the call fails before withRetry is entered
Call_Throws(call, type, message) ==
    /\ result' = Thrown(call, handleError(RawError(message), type))
    /\ jobs' = <<>>
    /\ providerCalls' = 0
    /\ UNCHANGED <<vop, initialized>>

\* the call enters withRetry and issues its first provider call
Call_Starts(call, type) ==
    /\ vop' = [call |-> call, i |-> 0, stats |-> NoStats]
    /\ jobs' = <<Job("call", type, 0, Len(call.lengths))>>
    /\ providerCalls' = 1
    /\ result' = NoResult
    /\ UNCHANGED initialized

UpsertVector(indexName, length) ==
    /\ UNCHANGED <<status, session, convVars, fnVars, topicVars, callVars>>
    /\ vop = NoCall
    /\ LET call == Call("upsertVector", indexName, <<length>>, <<>>)
           thrown == FirstThrown(validateVector(indexName, length),
                                 getIndex(indexName)) IN
       IF thrown = Ok
       THEN Call_Starts(call, "OPERATION_ERROR")
       ELSE Call_Throws(call, "OPERATION_ERROR", thrown)

DeleteVector(indexName) ==
    /\ UNCHANGED <<status, session, convVars, fnVars, topicVars, callVars>>
    /\ vop = NoCall
    /\ LET call == Call("deleteVector", indexName, <<>>, <<>>) IN
       IF getIndex(indexName) = Ok
       THEN Call_Starts(call, "OPERATION_ERROR")
       ELSE Call_Throws(call, "OPERATION_ERROR", getIndex(indexName))

QueryVectors(indexName, length, threshold) ==
    /\ UNCHANGED <<status, session, convVars, fnVars, topicVars, callVars>>
    /\ vop = NoCall
    /\ LET call == Call("queryVectors", indexName, <<length>>, threshold)
           thrown == FirstThrown(validateVector(indexName, length),
                                 getIndex(indexName)) IN
       IF thrown = Ok
       THEN Call_Starts(call, "OPERATION_ERROR")
       ELSE Call_Throws(call, "OPERATION_ERROR", thrown)

\* withRetry: the provider call of attempt jobs[j].attempt resolves
withRetry_Resolved(j) ==
    /\ UNCHANGED <<status, session, convVars, fnVars, topicVars, callVars>>
    /\ jobs[j].pc = "call"
    /\ \E scores \in (IF vop.call.name = "queryVectors" THEN Responses
                                                        ELSE {<<>>}) :
          jobs' = [jobs EXCEPT ![j].pc = "ok", ![j].err = NoError,
                               ![j].scores = scores]
    /\ UNCHANGED <<initialized, vop, providerCalls, result>>

\* every rejection before the last attempt is retried
withRetry_Rejected_RetryAll(j, message) ==
    /\ UNCHANGED <<status, session, convVars, fnVars, topicVars, callVars>>
    /\ jobs[j].pc = "call"
    /\ jobs' = [jobs EXCEPT ![j] =
          IF jobs[j].attempt = maxAttempts
          THEN [@ EXCEPT !.pc = "failed",
                         !.err = handleError(RawError(message), jobs[j].type)]
          ELSE [@ EXCEPT !.pc = "wait", !.err = RawError(message)]]
    /\ UNCHANGED <<initialized, vop, providerCalls, result>>

\* a rejection is retried whatever the attempt
withRetry_Rejected_NeverGivesUp(j, message) ==
    /\ UNCHANGED <<status, session, convVars, fnVars, topicVars, callVars>>
    /\ jobs[j].pc = "call"
    /\ jobs' = [jobs EXCEPT ![j] =
          IF jobs[j].type = "VALIDATION_ERROR"
          THEN [@ EXCEPT !.pc = "failed",
                         !.err = handleError(RawError(message), jobs[j].type)]
          ELSE [@ EXCEPT !.pc = "wait", !.err = RawError(message)]]
    /\ UNCHANGED <<initialized, vop, providerCalls, result>>

\* withRetry: the provider call of attempt jobs[j].attempt rejects
withRetry_Rejected(j, message) ==
    /\ UNCHANGED <<status, session, convVars, fnVars, topicVars, callVars>>
    /\ jobs[j].pc = "call"
    /\ jobs' = [jobs EXCEPT ![j] =
          IF jobs[j].type = "VALIDATION_ERROR" \/ jobs[j].attempt = maxAttempts
          THEN [@ EXCEPT !.pc = "failed",
                         !.err = handleError(RawError(message), jobs[j].type)]
          ELSE [@ EXCEPT !.pc = "wait", !.err = RawError(message)]]
    /\ UNCHANGED <<initialized, vop, providerCalls, result>>

\* the loop goes on after an attempt that resolved
withRetry_Backoff_AfterSuccess(j) ==
    /\ UNCHANGED <<status, session, convVars, fnVars, topicVars, callVars>>
    /\ jobs[j].pc \in {"wait", "ok"}
    /\ jobs[j].attempt < maxAttempts
    /\ jobs' = [jobs EXCEPT ![j].pc = "call",
                            ![j].waits = Append(@, delayMs(jobs[j].attempt)),
                            ![j].attempt = @ + 1]
    /\ providerCalls' = providerCalls + 1
    /\ UNCHANGED <<initialized, vop, result>>

\* withRetry: the backoff delay elapses and the next attempt is issued
withRetry_Backoff(j) ==
    /\ UNCHANGED <<status, session, convVars, fnVars, topicVars, callVars>>
    /\ jobs[j].pc = "wait"
    /\ jobs' = [jobs EXCEPT ![j].pc = "call",
                            ![j].waits = Append(@, delayMs(jobs[j].attempt)),
                            ![j].attempt = @ + 1]
    /\ providerCalls' = providerCalls + 1
    /\ UNCHANGED <<initialized, vop, result>>

\* upsertVector and deleteVector after withRetry
Single_Done ==
    /\ UNCHANGED <<status, session, convVars, fnVars, topicVars, callVars>>
    /\ vop.call.name \in {"upsertVector", "deleteVector"}
    /\ jobs[1].pc \in {"ok", "failed"}
    /\ result' = IF jobs[1].pc = "ok"
                 THEN Returned(vop.call, <<>>)
                 ELSE Thrown(vop.call, handleError(jobs[1].err, "OPERATION_ERROR"))
    /\ vop' = NoCall
    /\ jobs' = <<>>
    /\ UNCHANGED <<initialized, providerCalls>>

DEFAULT_threshold == 70

processQueryResults_Strict(results, threshold) ==
    SelectSeq(results, LAMBDA score : score > threshold)

processQueryResults(results, threshold) ==
    SelectSeq(results, LAMBDA score : score >= threshold)

QueryVectors_Done ==
    /\ UNCHANGED <<status, session, convVars, fnVars, topicVars, callVars>>
    /\ vop.call.name = "queryVectors"
    /\ jobs[1].pc \in {"ok", "failed"}
    /\ LET threshold == IF vop.call.threshold = <<>> THEN DEFAULT_threshold
                        ELSE vop.call.threshold[1] IN
       result' = IF jobs[1].pc = "ok"
                 THEN Returned(vop.call,
                         [results |-> processQueryResults(jobs[1].scores,
                                                          threshold),
                          response |-> jobs[1].scores])
                 ELSE Thrown(vop.call, handleError(jobs[1].err, "OPERATION_ERROR"))
    /\ vop' = NoCall
    /\ jobs' = <<>>
    /\ UNCHANGED <<initialized, providerCalls>>

(***************************************************************************)
(* Batch operations.                                                       *)
(***************************************************************************)
slice(items, start, end) == SubSeq(items, start + 1, Min(end, Len(items)))

RECURSIVE createBatchChunksFrom(_, _)
createBatchChunksFrom(items, i) ==
    IF i < Len(items)
    THEN <<[items |-> slice(items, i, i + CHUNK_SIZE), startIndex |-> i]>>
         \o createBatchChunksFrom(items, i + CHUNK_SIZE)
    ELSE <<>>

createBatchChunks_DropPartial(items) ==
    createBatchChunksFrom(SubSeq(items, 1, Len(items) - (Len(items) % CHUNK_SIZE)), 0)

createBatchChunks(items) == createBatchChunksFrom(items, 0)

Done == {"ok", "failed", "invalid"}

\* processBatchChunk up to its first await: the vectors of the chunk are
\* validated and the first provider call issued
processBatchChunk_NoValidation(indexName, chunk) ==
    Job("call", "BATCH_ERROR", chunk.startIndex, Len(chunk.items))

processBatchChunk(indexName, chunk) ==
    IF \A k \in 1..Len(chunk.items) :
          validateVector(indexName, chunk.items[k]) = Ok
    THEN Job("call", "BATCH_ERROR", chunk.startIndex, Len(chunk.items))
    ELSE [Job("invalid", "BATCH_ERROR", chunk.startIndex, Len(chunk.items))
             EXCEPT !.err = RawError("Vector dimensions mismatch")]

Wave_OneMore(i, n) == {k \in 1..n : i < k /\ k <= i + MAX_CONCURRENT_BATCHES + 1}

Wave(i, n) == {k \in 1..n : i < k /\ k <= i + MAX_CONCURRENT_BATCHES}

\* the chunks of the wave after chunk i are started, the others left alone
StartWave(call, js, i) ==
    LET chunks == createBatchChunks(call.lengths) IN
    [k \in 1..Len(js) |->
        IF k \in Wave(i, Len(js))
        THEN processBatchChunk(call.indexName, chunks[k])
        ELSE js[k]]

\* the chunks are counted instead of their items
SumSize_CountChunks(js, S) == Cardinality(S)

RECURSIVE SumSize(_, _)
SumSize(js, S) ==
    IF S = {} THEN 0
    ELSE LET k == CHOOSE x \in S : TRUE IN js[k].size + SumSize(js, S \ {k})

Calling(js, S) == Cardinality({k \in S : js[k].pc = "call"})

\* the failed items are numbered within their chunk
RECURSIVE AggregateErrors_ChunkOffsets(_, _)
AggregateErrors_ChunkOffsets(js, k) ==
    IF k > Len(js) THEN <<>>
    ELSE (IF js[k].pc = "ok" THEN <<>>
          ELSE [o \in 1..js[k].size |->
                   [index |-> o - 1,
                    error |-> handleError(js[k].err, "BATCH_ERROR")]])
         \o AggregateErrors_ChunkOffsets(js, k + 1)

RECURSIVE AggregateErrors(_, _)
AggregateErrors(js, k) ==
    IF k > Len(js) THEN <<>>
    ELSE (IF js[k].pc = "ok" THEN <<>>
          ELSE [o \in 1..js[k].size |->
                   [index |-> js[k].startIndex + o - 1,
                    error |-> handleError(js[k].err, "BATCH_ERROR")]])
         \o AggregateErrors(js, k + 1)

validateBatch_Inclusive(entries) ==
    IF Len(entries) = 0 THEN "Empty batch"
    ELSE IF Len(entries) >= MAX_BATCH_SIZE THEN "Batch size exceeds maximum"
    ELSE Ok

\* the input validation upsertBatch and deleteBatch start with
validateBatch(entries) ==
    IF Len(entries) = 0 THEN "Empty batch"
    ELSE IF Len(entries) > MAX_BATCH_SIZE THEN "Batch size exceeds maximum"
    ELSE Ok

UpsertBatch(indexName, entries) ==
    /\ UNCHANGED <<status, session, convVars, fnVars, topicVars, callVars>>
    /\ vop = NoCall
    /\ LET call == Call("upsertBatch", indexName, entries, <<>>)
           thrown == FirstThrown(validateBatch(entries), getIndex(indexName)) IN
       IF thrown # Ok
       THEN Call_Throws(call, "BATCH_ERROR", thrown)
       ELSE LET chunks == createBatchChunks(entries)
                pending == [k \in 1..Len(chunks) |->
                               Job("pending", "BATCH_ERROR",
                                   chunks[k].startIndex, Len(chunks[k].items))]
                started == StartWave(call, pending, 0)
            IN /\ vop' = [call |-> call, i |-> 0,
                          stats |-> [NoStats EXCEPT !.totalItems =
                                        SumSize(pending, 1..Len(pending))]]
               /\ jobs' = started
               /\ providerCalls' = Calling(started, 1..Len(started))
               /\ result' = NoResult
               /\ UNCHANGED initialized

\* processBatchChunks after the Promise.all of a wave: statistics, then the
\* next wave or the aggregated result
UpsertBatch_WaveDone ==
    /\ UNCHANGED <<status, session, convVars, fnVars, topicVars, callVars>>
    /\ vop.call.name = "upsertBatch"
    /\ LET wave == Wave(vop.i, Len(jobs))
           failedWave == {k \in wave : jobs[k].pc # "ok"}
           stats == [vop.stats EXCEPT
                        !.processedItems = @ + SumSize(jobs, wave),
                        !.successfulItems = @ + SumSize(jobs, wave \ failedWave),
                        !.failedItems = @ + SumSize(jobs, failedWave)]
           i == vop.i + MAX_CONCURRENT_BATCHES
       IN /\ \A k \in wave : jobs[k].pc \in Done
          /\ IF i < Len(jobs)
             THEN LET started == StartWave(vop.call, jobs, i) IN
                  /\ jobs' = started
                  /\ vop' = [vop EXCEPT !.i = i, !.stats = stats]
                  /\ providerCalls' = providerCalls
                                        + Calling(started, Wave(i, Len(jobs)))
                  /\ UNCHANGED result
             ELSE LET errors == AggregateErrors(jobs, 1) IN
                  /\ result' = Returned(vop.call,
                                  [success |-> Len(errors) = 0,
                                   errors |-> errors, stats |-> stats,
                                   outcomes |-> [k \in 1..Len(jobs) |->
                                                    jobs[k].pc]])
                  /\ vop' = NoCall
                  /\ jobs' = <<>>
                  /\ UNCHANGED providerCalls
    /\ UNCHANGED initialized

\* deleteBatch handed to processBatchChunks, as upsertBatch is
DeleteBatch_Chunked(indexName, entries) ==
    /\ UNCHANGED <<status, session, convVars, fnVars, topicVars, callVars>>
    /\ vop = NoCall
    /\ LET call == Call("deleteBatch", indexName, entries, <<>>)
           thrown == FirstThrown(validateBatch(entries), getIndex(indexName)) IN
       IF thrown # Ok
       THEN Call_Throws(call, "BATCH_ERROR", thrown)
       ELSE LET chunks == createBatchChunks(entries) IN
            /\ vop' = [call |-> call, i |-> 0, stats |-> NoStats]
            /\ jobs' = [k \in 1..Len(chunks) |->
                           Job("call", "BATCH_ERROR", chunks[k].startIndex,
                               Len(chunks[k].items))]
            /\ providerCalls' = Len(chunks)
            /\ result' = NoResult
            /\ UNCHANGED initialized

DeleteBatch(indexName, entries) ==
    /\ UNCHANGED <<status, session, convVars, fnVars, topicVars, callVars>>
    /\ vop = NoCall
    /\ LET call == Call("deleteBatch", indexName, entries, <<>>)
           thrown == FirstThrown(validateBatch(entries), getIndex(indexName)) IN
       IF thrown # Ok
       THEN Call_Throws(call, "BATCH_ERROR", thrown)
       ELSE Call_Starts(call, "BATCH_ERROR")

DeleteBatch_Done ==
    /\ UNCHANGED <<status, session, convVars, fnVars, topicVars, callVars>>
    /\ vop.call.name = "deleteBatch"
    /\ jobs[1].pc \in {"ok", "failed"}
    /\ LET n == Len(vop.call.lengths) IN
       result' = IF jobs[1].pc = "ok"
                 THEN Returned(vop.call,
                         [success |-> TRUE, errors |-> <<>>,
                          stats |-> [totalItems |-> n, processedItems |-> n,
                                     successfulItems |-> n, failedItems |-> 0]])
                 ELSE Returned(vop.call,
                         [success |-> FALSE,
                          errors |-> [k \in 1..n |->
                              [index |-> k - 1,
                               error |-> handleError(jobs[1].err, "BATCH_ERROR")]],
                          stats |-> [totalItems |-> n, processedItems |-> n,
                                     successfulItems |-> 0, failedItems |-> n]])
    /\ vop' = NoCall
    /\ jobs' = <<>>
    /\ UNCHANGED <<initialized, providerCalls>>

Entries(n, bad) ==
    [k \in 1..n |-> IF k = bad THEN dimensions - 1 ELSE dimensions]

\* entry lists offered to the batch operations: <<length, bad position>>
BatchShapes ==
    {<<0, 0>>, <<1, 0>>, <<1, 1>>,
     <<CHUNK_SIZE + 1, 0>>, <<CHUNK_SIZE + 1, CHUNK_SIZE + 1>>,
     <<3 * CHUNK_SIZE + 1, 0>>, <<3 * CHUNK_SIZE + 1, 1>>,
     <<3 * CHUNK_SIZE + 1, 3 * CHUNK_SIZE + 1>>,
     <<MAX_BATCH_SIZE, 0>>, <<MAX_BATCH_SIZE + 1, 0>>}

NextVec ==
    \/ Initialize
    \/ \E indexName \in RequestedNames :
        \/ \E length \in VectorLengths : UpsertVector(indexName, length)
        \/ \E length \in VectorLengths, threshold \in ThresholdOptions :
              QueryVectors(indexName, length, threshold)
        \/ DeleteVector(indexName)
        \/ \E shape \in BatchShapes :
              UpsertBatch(indexName, Entries(shape[1], shape[2]))
        \/ \E shape \in BatchShapes :
              DeleteBatch(indexName, Entries(shape[1], shape[2]))
    \/ \E j \in 1..Len(jobs) : withRetry_Resolved(j)
    \/ \E j \in 1..Len(jobs), message \in ProviderErrors :
          withRetry_Rejected(j, message)
    \/ \E j \in 1..Len(jobs) : withRetry_Backoff(j)
    \/ Single_Done
    \/ QueryVectors_Done
    \/ UpsertBatch_WaveDone
    \/ DeleteBatch_Done

SpecVec == Init /\ [][NextVec]_vars

(***************************************************************************)
(* withRetry on its own, next to the operations of the service: a loop is  *)
(* started with an error configuration of any VectorStoreErrorType.        *)
(***************************************************************************)
ErrorTypes == {"CONNECTION_ERROR", "VALIDATION_ERROR", "OPERATION_ERROR",
               "INDEX_ERROR", "BATCH_ERROR"}

WithRetry(type) ==
    /\ UNCHANGED <<status, session, convVars, fnVars, topicVars, callVars>>
    /\ vop = NoCall
    /\ Call_Starts(Call("withRetry", "none", <<>>, <<>>), type)

\* withRetry returns the value of the operation or throws its own error
WithRetry_Done ==
    /\ UNCHANGED <<status, session, convVars, fnVars, topicVars, callVars>>
    /\ vop.call.name = "withRetry"
    /\ jobs[1].pc \in {"ok", "failed"}
    /\ result' = IF jobs[1].pc = "ok"
                 THEN Returned(vop.call, <<>>)
                 ELSE Thrown(vop.call, jobs[1].err)
    /\ vop' = NoCall
    /\ jobs' = <<>>
    /\ UNCHANGED <<initialized, providerCalls>>

NextRetry ==
    \/ NextVec
    \/ \E type \in ErrorTypes : WithRetry(type)
    \/ WithRetry_Done

SpecRetry == Init /\ [][NextRetry]_vars

(***************************************************************************)
(* TopicService.  One client calls the service on one conversation, one    *)
(* call at a time.  A segment id the client passes is either a key that    *)
(* createTopicSegment returned or 'initial', the id of the segment that    *)
(* createSession returns in memory and never stores.                       *)
(***************************************************************************)
Pushed == {key \in TopicKeys \ {0} : topics[key].status # "none"}

\* Firebase push keys are new and increase
NextKey == Cardinality(Pushed) + 1

\* createTopicSegment: the segment is pushed as it is built, active, with
\* messageCount 1; the segments already stored are neither read nor written
createTopicSegment_ReuseFirstKey(store, key) ==
    [store EXCEPT ![1] =
        [status |-> "active", hasCount |-> TRUE, messageCount |-> 1]]

createTopicSegment(store, key) ==
    [store EXCEPT ![key] =
        [status |-> "active", hasCount |-> TRUE, messageCount |-> 1]]

CreateTopicSegment ==
    /\ UNCHANGED <<status, session, convVars, vecVars, fnVars, callVars>>
    /\ NextKey <= MaxTopics
    /\ topics' = createTopicSegment(topics, NextKey)
    /\ topicCall' = [op |-> "createTopicSegment", topicId |-> NextKey,
                     outcome |-> "returned"]

\* completeTopicSegment: update() of the node under topicId; the node is
\* not read first, and update() of a missing node writes just these fields
CompleteTopicSegment(topicId) ==
    /\ UNCHANGED <<status, session, convVars, vecVars, fnVars, callVars>>
    /\ topicId \in Pushed \cup {0}
    /\ topics' = [topics EXCEPT ![topicId].status = "completed"]
    /\ topicCall' = [op |-> "completeTopicSegment", topicId |-> topicId,
                     outcome |-> "returned"]

\* incrementMessageCount: getTopic, return if there is no node, else
\* update messageCount to topic.messageCount + 1.  A node without a
\* messageCount gives undefined + 1 = NaN, which update() rejects.
IncrementMessageCount_NoGuard(topicId) ==
    /\ UNCHANGED <<status, session, convVars, vecVars, fnVars, callVars>>
    /\ topicId \in Pushed \cup {0}
    /\ topics[topicId].messageCount < MaxTopicMessages
    /\ topics' = [topics EXCEPT ![topicId].messageCount = @ + 1]
    /\ topicCall' = [op |-> "incrementMessageCount",
                     topicId |-> topicId, outcome |-> "returned"]

IncrementMessageCount(topicId) ==
    /\ UNCHANGED <<status, session, convVars, vecVars, fnVars, callVars>>
    /\ topicId \in Pushed \cup {0}
    /\ topics[topicId].messageCount < MaxTopicMessages
    /\ IF topics[topicId].status = "none"
       THEN /\ UNCHANGED topics
            /\ topicCall' = [op |-> "incrementMessageCount",
                             topicId |-> topicId, outcome |-> "no topic"]
       ELSE IF ~topics[topicId].hasCount
       THEN /\ UNCHANGED topics
            /\ topicCall' = [op |-> "incrementMessageCount",
                             topicId |-> topicId, outcome |-> "threw"]
       ELSE /\ topics' = [topics EXCEPT ![topicId].messageCount = @ + 1]
            /\ topicCall' = [op |-> "incrementMessageCount",
                             topicId |-> topicId, outcome |-> "returned"]

\* calculateSimilarity: the placeholder returns 1.0, in hundredths
calculateSimilarity == 100

\* detectTopicChange: true when getTopic returns null, else whether the
\* similarity score is below the threshold
detectTopicChange_Inclusive(loaded, similarityScore) ==
    IF ~loaded THEN TRUE ELSE similarityScore <= topicChangeThreshold

detectTopicChange(loaded, similarityScore) ==
    IF ~loaded THEN TRUE ELSE similarityScore < topicChangeThreshold

DetectTopicChange(topicId) ==
    /\ UNCHANGED <<status, session, convVars, vecVars, fnVars, callVars, topics>>
    /\ topicId \in Pushed \cup {0}
    /\ topicCall' = [op |-> "detectTopicChange", topicId |-> topicId,
          outcome |-> IF detectTopicChange(topics[topicId].status # "none",
                                           calculateSimilarity)
                      THEN "true" ELSE "false"]

NextTopic ==
    \/ CreateSession
    \/ CreateTopicSegment
    \/ \E topicId \in TopicKeys : CompleteTopicSegment(topicId)
    \/ \E topicId \in TopicKeys : IncrementMessageCount(topicId)
    \/ \E topicId \in TopicKeys : DetectTopicChange(topicId)

SpecTopic == Init /\ [][NextTopic]_vars

(***************************************************************************)
(* MessageProcessor called for a conversation id under which TopicService  *)
(* may have stored a segment before any session was created: the node      *)
(* exists then, without metadata.                                          *)
(***************************************************************************)
NextCorrupt ==
    \/ CreateSession
    \/ CreateTopicSegment
    \/ \E p \in Callers : GetMetadata_NotFound(p)
    \/ \E p \in Callers : GetMetadata_Corrupted(p)
    \/ \E p \in Callers : GetMetadata_GiveUp(p)
    \/ \E p \in Callers :
          now < MaxClock
            /\ AddMessage_GetMetadata(p, ExpectedRole(Len(messages) + 1), FALSE)
    \/ \E p \in Callers : now < MaxClock /\ ProcessMessagePair_GetMetadata(p)
    \/ \E p \in Callers : StoreMessage_Push(p)
    \/ \E p \in Callers : StoreMessage_ReadCount(p)
    \/ \E p \in Callers : StoreMessage_UpdateCount(p)
    \/ \E p \in Callers : Finish(p)

SpecCorrupt == Init /\ [][NextCorrupt]_vars

(***************************************************************************)
(* The pure functions on their own: Init draws the argument, the action    *)
(* applies the function to it.                                             *)
(***************************************************************************)
InitShould ==
    /\ ConvInit /\ VecIdle /\ TopicIdle /\ CallIdle
    /\ input \in (-MaxCount)..MaxCount
    /\ output = <<>>

Apply_shouldGenerateSummary ==
    /\ UNCHANGED <<status, session, convVars, vecVars, topicVars, callVars>>
    /\ output = <<>>
    /\ output' = <<shouldGenerateSummary(input)>>
    /\ UNCHANGED input

NextShould == Apply_shouldGenerateSummary

SpecShould == InitShould /\ [][NextShould]_vars

\* an item of the list is named by its index in the list, counted from 0
InitChunks ==
    /\ ConvInit /\ VecIdle /\ TopicIdle /\ CallIdle
    /\ \E n \in 0..MaxItems : input = [k \in 1..n |-> k - 1]
    /\ output = <<>>

Apply_createBatchChunks ==
    /\ UNCHANGED <<status, session, convVars, vecVars, topicVars, callVars>>
    /\ output = <<>>
    /\ output' = <<createBatchChunks(input)>>
    /\ UNCHANGED input

NextChunks == Apply_createBatchChunks

SpecChunks == InitChunks /\ [][NextChunks]_vars

(***************************************************************************)
(* SummaryService.generateGlobalSummary on its own: Init draws the recent  *)
(* summaries, of which the themes matter here, and the action runs the     *)
(* call, createSummary included.                                           *)
(***************************************************************************)
ThemeLists == {<<>>, <<"a", "b">>, <<"b", "c">>, <<"d">>, <<"a", "a">>,
               <<"c", "a", "b">>}

RecentSummaries ==
    UNION {[1..n -> [themes : ThemeLists]] : n \in 0..MaxSummaries}

\* recentSummaries.flatMap(s => s.themes)
RECURSIVE flatMapThemes(_)
flatMapThemes(recentSummaries) ==
    IF recentSummaries = <<>> THEN <<>>
    ELSE recentSummaries[1].themes \o flatMapThemes(Tail(recentSummaries))

\* [...new Set(list)]: each value once, in the order of first occurrence
RECURSIVE uniqueFrom(_, _)
uniqueFrom(list, seenSoFar) ==
    IF list = <<>> THEN <<>>
    ELSE IF list[1] \in seenSoFar THEN uniqueFrom(Tail(list), seenSoFar)
    ELSE <<list[1]>> \o uniqueFrom(Tail(list), seenSoFar \cup {list[1]})

allThemes_NoSet(recentSummaries) == flatMapThemes(recentSummaries)

allThemes(recentSummaries) == uniqueFrom(flatMapThemes(recentSummaries), {})

InitGlobal ==
    /\ ConvInit /\ VecIdle /\ TopicIdle /\ CallIdle
    /\ input \in RecentSummaries
    /\ output = <<>>

GenerateGlobalSummary ==
    /\ UNCHANGED <<status, session, vecVars, topicVars, callVars>>
    /\ output = <<>>
    /\ summaries' = Append(summaries,
          [level |-> "global", themes |-> allThemes(input)])
    /\ output' = <<summaries'[Len(summaries')]>>
    /\ UNCHANGED <<created, metaCount, messages, now, calls, tasks, returned,
                   nAdd, nPair, triggers, failed, input>>

NextGlobal == GenerateGlobalSummary

SpecGlobal == InitGlobal /\ [][NextGlobal]_vars

\* the decision of detectTopicChange on its own: whether the current topic
\* was loaded, and the score the similarity computation returned
InitDetect ==
    /\ ConvInit /\ VecIdle /\ TopicIdle /\ CallIdle
    /\ input \in [loaded : BOOLEAN, similarityScore : 0..MaxScore]
    /\ output = <<>>

Apply_detectTopicChange ==
    /\ UNCHANGED <<status, session, convVars, vecVars, topicVars, callVars>>
    /\ output = <<>>
    /\ output' = <<detectTopicChange(input.loaded, input.similarityScore)>>
    /\ UNCHANGED input

NextDetect == Apply_detectTopicChange

SpecDetect == InitDetect /\ [][NextDetect]_vars

(***************************************************************************)
(* Properties of the conversation run.                                     *)
(***************************************************************************)
Quiet == \A p \in Callers : calls[p].pc = "idle"

Range(f) == {f[x] : x \in DOMAIN f}

\* C1: after N sequential MessageProcessor.addMessage calls on a fresh
\* conversation the persisted messageCount is N, and so is the number of
\* stored messages.
C1_CounterExact ==
    (Quiet /\ nPair = 0) => (metaCount = nAdd /\ Len(messages) = nAdd)

C1_Witness == Quiet /\ nPair = 0 /\ nAdd = 11 /\ metaCount = 11

\* C2: in a sequential run of addMessage calls the k-th call starts a summary
\* task exactly when k is a positive multiple of summaryChunkSize, and the
\* count it decides on is k.
C2_TriggerTiming ==
    (Quiet /\ nPair = 0) =>
        /\ \A k \in 1..nAdd :
              (\E i \in 1..Len(triggers) : triggers[i].call = k)
                  <=> (k % 10 = 0)
        /\ \A i \in 1..Len(triggers) : triggers[i].n = triggers[i].call

C2_Witness ==
    /\ Quiet /\ nPair = 0 /\ nAdd = 11
    /\ Len(triggers) = 1 /\ triggers[1].call = 10

\* C4: a summary task that fails leaves the call that started it returned
\* with its stored message, the message in the store, and the counter at or
\* above the count that call wrote.
C4_FireAndForget ==
    \A f \in failed :
        /\ f.call <= nAdd + nPair
        /\ f.n \in Range(returned)
        /\ \E i \in 1..Len(messages) : messages[i].id = f.n
        /\ metaCount >= f.n

C4_Witness == Quiet /\ nAdd = 10 /\ failed # {} /\ metaCount = 10

\* C5 as stated: after 9 pairs no summary generation was started, after the
\* 10th exactly one, covering messages 11..20.
C5_NoSummaryBeforeTwenty ==
    Quiet =>
        /\ (nPair = 9 \/ nAdd = 18) => (triggers = <<>> /\ summaries = <<>>)
        /\ (nPair = 10 \/ nAdd = 20) => Len(triggers) = 1

\* C5 amended: after 9 pairs (or 18 single messages) exactly one summary
\* generation was started, at count 10 (by the 5th pair, or the 10th
\* message); the 10th pair (or 20th message) starts exactly one more, at
\* count 20, and the summary it creates is a "recent" one over messages
\* 11..20.
C5_SummariesAtTenAndTwenty ==
    Quiet =>
        /\ nPair = 9 =>
              triggers = <<[call |-> 5, n |-> 10, op |-> "pair"]>>
        /\ nAdd = 18 =>
              triggers = <<[call |-> 10, n |-> 10, op |-> "add"]>>
        /\ nPair = 10 =>
              /\ Len(triggers) = 2
              /\ triggers[2] = [call |-> 10, n |-> 20, op |-> "pair"]
        /\ nAdd = 20 =>
              /\ Len(triggers) = 2
              /\ triggers[2] = [call |-> 20, n |-> 20, op |-> "add"]
        /\ (nPair = 10 \/ nAdd = 20) =>
              /\ Cardinality({i \in 1..Len(summaries) : summaries[i].n = 20}) <= 1
              /\ \A i \in 1..Len(summaries) : summaries[i].n = 20 =>
                    /\ summaries[i].level = "recent"
                    /\ Len(summaries[i].content) = 10
                    /\ Range(summaries[i].content) = 11..20

C5_Witness ==
    /\ Quiet /\ nAdd = 20
    /\ Len(triggers) = 2
    /\ \E i \in 1..Len(summaries) : summaries[i].n = 20

\* C6: when the newest message of the chunk a summary was triggered for is
\* an assistant message with tool calls, the gathered input holds 11
\* messages, the next message among them, if that message was stored when
\* the input was gathered, and the 10 messages of the chunk otherwise.
C6_ToolCallWindowExtended ==
    \A t \in tasks :
        (/\ t.pc = "create"
         /\ messages[t.n].role = "assistant"
         /\ messages[t.n].toolCalls) =>
            IF t.seen > t.n
            THEN Len(t.window) = 11 /\ (t.n + 1) \in Range(t.window)
            ELSE Len(t.window) = 10 /\ Range(t.window) = (t.n - 9)..t.n

(***************************************************************************)
(* Properties of the pure functions.                                       *)
(***************************************************************************)
\* C3: shouldGenerateSummary(k) is true exactly when k is a positive
\* multiple of summaryChunkSize; with chunk size 10 it is false for 0, 1, 9
\* and 11 and true for 10 and 20.
C3_ShouldGenerateSummary ==
    output # <<>> =>
        /\ output[1] = (/\ input > 0
                        /\ \E q \in 1..input : input = q * summaryChunkSize)
        /\ input \in {0, 1, 9, 11} => output[1] = FALSE
        /\ input \in {10, 20} => output[1] = TRUE

C3_Witness == input = 20 /\ output = <<TRUE>>

RECURSIVE SumLen(_, _)
SumLen(chunks, c) ==
    IF c > Len(chunks) THEN 0
    ELSE Len(chunks[c].items) + SumLen(chunks, c + 1)

\* C9: for a list of 1..MAX_BATCH_SIZE entries every chunk holds between 1
\* and CHUNK_SIZE items, the chunk sizes sum to the length of the list, the
\* chunks follow one another from index 0, and the item at offset o of a
\* chunk is the item at index startIndex + o of the list, so that every
\* index is in exactly one chunk.
C9_ChunkPartition ==
    (output # <<>> /\ Len(input) \in 1..MAX_BATCH_SIZE) =>
        LET chunks == output[1]
            places == {<<c, o>> \in (1..Len(chunks)) \X (0..(CHUNK_SIZE - 1)) :
                          o < Len(chunks[c].items)}
        IN /\ \A c \in 1..Len(chunks) :
                 /\ Len(chunks[c].items) \in 1..20
                 /\ Len(chunks[c].items) <= CHUNK_SIZE
                 /\ chunks[c].startIndex =
                       IF c = 1 THEN 0
                       ELSE chunks[c - 1].startIndex + Len(chunks[c - 1].items)
           /\ SumLen(chunks, 1) = Len(input)
           /\ \A pl \in places :
                 chunks[pl[1]].items[pl[2] + 1]
                     = input[chunks[pl[1]].startIndex + pl[2] + 1]
           /\ \A i \in 0..(Len(input) - 1) :
                 Cardinality({pl \in places :
                                 chunks[pl[1]].startIndex + pl[2] = i}) = 1

C9_Witness ==
    /\ Len(input) = MAX_BATCH_SIZE
    /\ output # <<>>
    /\ Len(output[1]) = 5
    /\ output[1][5].startIndex = 80

(***************************************************************************)
(* Properties of the vector service.                                       *)
(***************************************************************************)
\* C7: upsertVector and queryVectors called on a configured index with a
\* vector whose length is not the dimensions of the index fail with an
\* error of type VALIDATION_ERROR that is not retryable, and no call to the
\* index provider is made.
C7_DimensionGuard ==
    (/\ result.call.name \in {"upsertVector", "queryVectors"}
     /\ result.call.indexName \in IndexNames
     /\ result.call.lengths[1] # dimensions) =>
        /\ result.status = "thrown"
        /\ result.error.type = "VALIDATION_ERROR"
        /\ ~result.error.retryable
        /\ providerCalls = 0

\* C8: upsertBatch and deleteBatch fail, without a call to the index
\* provider, on an empty list and on a list of more than MAX_BATCH_SIZE
\* entries; a list of exactly MAX_BATCH_SIZE entries passes the check of the
\* length, and a call returns only for a length in 1..MAX_BATCH_SIZE.
C8_BatchBounds ==
    result.call.name \in {"upsertBatch", "deleteBatch"} =>
        LET n == Len(result.call.lengths) IN
        /\ (n = 0 \/ n > 100) =>
              /\ result.status = "thrown"
              /\ result.error.type = "BATCH_ERROR"
              /\ providerCalls = 0
        /\ (n = MAX_BATCH_SIZE /\ result.status = "thrown") =>
              result.error.original = "Invalid index name"
        /\ result.status = "returned" => (n >= 1 /\ n <= MAX_BATCH_SIZE)

C8_Witness ==
    /\ result.call.name = "upsertBatch"
    /\ Len(result.call.lengths) = 100
    /\ result.status = "returned"
    /\ result.value.success
    /\ providerCalls = 5

\* C10: a withRetry loop that gave up made maxAttempts provider calls and
\* waited 1000 ms and then 2000 ms between them; the wait before attempt i
\* is backoffMs * 2^(i-2), nothing is waited after the last attempt, and
\* the operation then throws.
C10_RetryBackoff ==
    /\ \A j \in 1..Len(jobs) :
          /\ jobs[j].pc = "failed" =>
                /\ jobs[j].attempt = maxAttempts
                /\ jobs[j].waits = <<1000, 2000>>
          /\ jobs[j].pc \in {"call", "wait", "ok", "failed"} =>
                /\ Len(jobs[j].waits) = jobs[j].attempt - 1
                /\ \A i \in 2..jobs[j].attempt :
                      jobs[j].waits[i - 1] = backoffMs * Pow2(i - 2)
    /\ (Len(jobs) = 1 /\ jobs[1].pc = "failed") => providerCalls = maxAttempts
    /\ (/\ result.call.name \in {"upsertVector", "deleteVector", "queryVectors"}
        /\ result.status = "thrown"
        /\ result.error.original = "Failed to") =>
            providerCalls = 3

C10_Witness ==
    /\ result.call.name = "upsertVector"
    /\ result.status = "thrown"
    /\ result.error.original = "Failed to"
    /\ providerCalls = 3

\* C11: a validation failure is never retried.  The validation done by
\* the operations of the service fails before the retry loop is entered: the
\* call throws, or the chunk fails, with no provider call and no wait.  A
\* retry loop configured with VALIDATION_ERROR gives up at the rejection of
\* its first attempt, after exactly one provider call and no wait, whatever
\* maxAttempts is.
ValidationMessages == {"Vector dimensions mismatch", "Invalid index name"}

C12_ScoreThreshold ==
    (result.call.name = "queryVectors" /\ result.status = "returned") =>
        LET threshold == IF result.call.threshold = <<>> THEN 70
                         ELSE result.call.threshold[1]
            response == result.value.response
            results == result.value.results
            kept == {i \in 1..Len(response) : response[i] >= threshold}
        IN /\ \A k \in 1..Len(results) : results[k] >= threshold
           /\ Len(results) = Cardinality(kept)
           /\ \A k \in 1..Len(results) :
                 \E i \in kept :
                    /\ Cardinality({j \in kept : j < i}) = k - 1
                    /\ results[k] = response[i]

C12_Witness ==
    /\ result.call.name = "queryVectors"
    /\ result.status = "returned"
    /\ result.call.threshold = <<>>
    /\ result.value.response = <<69, 90, 70, 89, 95>>
    /\ result.value.results = <<90, 70, 89, 95>>

\* C13: a chunk of upsertBatch that fails does not stop the others.  The
\* call returns once every chunk was processed; success is TRUE exactly when
\* no chunk failed; errors lists, once each, the input indices of the items
\* of the failed chunks and nothing else, and the statistics count them.  The
\* call throws only for what is found before any chunk is started.
ChunkOf(index) == index \div CHUNK_SIZE + 1

C13_ChunkFailureIsolation ==
    result.call.name = "upsertBatch" =>
        LET n == Len(result.call.lengths) IN
        /\ result.status = "thrown" =>
              /\ providerCalls = 0
              /\ result.error.original \in
                    {"Empty batch", "Batch size exceeds maximum",
                     "Invalid index name"}
        /\ result.status = "returned" =>
              LET outcomes == result.value.outcomes
                  errors == result.value.errors
                  failedItems == {i \in 0..(n - 1) : outcomes[ChunkOf(i)] # "ok"}
              IN /\ Len(outcomes) = (n + CHUNK_SIZE - 1) \div CHUNK_SIZE
                 /\ \A k \in 1..Len(outcomes) : outcomes[k] \in Done
                 /\ result.value.success
                       = (\A k \in 1..Len(outcomes) : outcomes[k] = "ok")
                 /\ {errors[e].index : e \in 1..Len(errors)} = failedItems
                 /\ Len(errors) = Cardinality(failedItems)
                 /\ result.value.stats.processedItems = n
                 /\ result.value.stats.failedItems = Cardinality(failedItems)
                 /\ result.value.stats.successfulItems
                       = n - Cardinality(failedItems)

C13_Witness ==
    /\ result.call.name = "upsertBatch"
    /\ result.status = "returned"
    /\ Len(result.call.lengths) = 61
    /\ result.value.outcomes = <<"ok", "failed", "ok", "ok">>
    /\ ~result.value.success
    /\ Len(result.value.errors) = 20

\* C14: while upsertBatch runs, at most MAX_CONCURRENT_BATCHES (3) chunks
\* are in flight; the chunks are started in input order, in waves of up to
\* 3 that start together, and a chunk is started only when every chunk of
\* the waves before its own has finished, retries included.
WaveOf(k) == (k - 1) \div MAX_CONCURRENT_BATCHES

InFlight == {k \in 1..Len(jobs) : jobs[k].pc \in {"call", "wait"}}

C14_BoundedConcurrency ==
    vop.call.name = "upsertBatch" =>
        /\ Cardinality(InFlight) <= 3
        /\ Cardinality(InFlight) <= MAX_CONCURRENT_BATCHES
        /\ \A k \in 1..Len(jobs) : jobs[k].pc # "pending" =>
              /\ \A j \in 1..Len(jobs) :
                    /\ j < k => jobs[j].pc # "pending"
                    /\ WaveOf(j) = WaveOf(k) => jobs[j].pc # "pending"
                    /\ WaveOf(j) < WaveOf(k) => jobs[j].pc \in Done

C14_Witness ==
    /\ vop.call.name = "upsertBatch"
    /\ Len(jobs) = 5
    /\ jobs[1].pc = "failed" /\ jobs[1].attempt = maxAttempts
    /\ jobs[4].pc = "wait"
    /\ jobs[5].pc = "call"


(***************************************************************************)
(* Properties of the topic segments.                                       *)
(***************************************************************************)
ActiveTopics == {key \in TopicKeys : topics[key].status = "active"}

\* C15: after any sequence of createSession, createTopicSegment,
\* completeTopicSegment and incrementMessageCount calls on one conversation
\* at most one stored topic segment has status active.
C15_TopicExclusivity == Cardinality(ActiveTopics) <= 1


(***************************************************************************)
(* Properties of generateGlobalSummary.                                    *)
(***************************************************************************)
\* C16: generateGlobalSummary persists a summary of level global whose
\* themes, as a set, are the union of the themes of the input summaries,
\* and that names no theme twice.
C16_GlobalThemeUnion ==
    output # <<>> =>
        /\ Len(summaries) = 1
        /\ summaries[1] = output[1]
        /\ summaries[1].level = "global"
        /\ Range(summaries[1].themes) =
              UNION {Range(input[i].themes) : i \in 1..Len(input)}
        /\ Len(summaries[1].themes) = Cardinality(Range(summaries[1].themes))

C16_Witness ==
    /\ input = <<[themes |-> <<"a", "b">>], [themes |-> <<"b", "c">>],
                 [themes |-> <<"d">>]>>
    /\ output # <<>>
    /\ summaries[1].themes = <<"a", "b", "c", "d">>


(***************************************************************************)
(* Properties of the runs with failing store operations.                   *)
(***************************************************************************)
\* C17: processMessagePair never throws; when a step has failed it returns
\* success = false, with type CONVERSATION_NOT_FOUND when getMetadata failed
\* because the conversation does not exist and with type STORAGE_ERROR when
\* storing a message failed.
C17_PairNeverThrows ==
    outcome.op = "pair" =>
        /\ ~outcome.threw
        /\ outcome.step # "none" => ~outcome.success
        /\ outcome.step = "none" => (outcome.success /\ outcome.type = "none")
        /\ (outcome.step = "getMetadata" /\ outcome.message = NotFoundMessage)
              => outcome.type = "CONVERSATION_NOT_FOUND"
        /\ outcome.step \in {"store", "csRead", "csUpdate"}
              => outcome.type = "STORAGE_ERROR"

C17_Witness ==
    /\ outcome.op = "pair" /\ ~outcome.success
    /\ outcome.step = "csUpdate" /\ outcome.type = "STORAGE_ERROR"
    /\ nThrown = maxRetries + 1
    /\ Len(messages) >= 2
    /\ calls[1].pc = "idle"


(***************************************************************************)
(* Properties of the runs that mix the two entry points.                   *)
(***************************************************************************)
TriggerCounts == {triggers[i].n : i \in 1..Len(triggers)}

\* C18: processMessagePair leaves what addMessage(user) followed by
\* addMessage(assistant) leaves, from every starting messageCount: once the
\* calls have returned, every message is stored and counted and a summary
\* was triggered at each multiple of summaryChunkSize the count has passed,
\* as message-by-message calls do (C1, C2).
C18_PairEqualsTwoAdds ==
    Quiet =>
        /\ Len(messages) = nAdd + 2 * nPair
        /\ metaCount = nAdd + 2 * nPair
        /\ TriggerCounts =
              {n \in 1..metaCount : n % summaryChunkSize = 0}


(***************************************************************************)
(* Properties of the runs with concurrent callers.                         *)
(***************************************************************************)
QuietAll == \A p \in Processes : calls[p].pc = "idle"

\* C19: once concurrent addMessage calls on one conversation have all
\* completed, messageCount is the number of messages appended to it.
C19_CounterUnderConcurrency ==
    (QuietAll /\ nPair = 0) => metaCount = Len(messages)

\* C20: no write to messageCount stores a value smaller than the value it
\* overwrites, whatever the interleaving of addMessage, processMessagePair
\* and completeSession calls.
C20_CountNeverDecreases == [][metaCount' >= metaCount]_vars


(***************************************************************************)
(* Properties of the retry wrapper of MessageProcessor.                    *)
(***************************************************************************)
FixedWaits(waits) == \A i \in 1..Len(waits) : waits[i] = retryDelayMs

C22_NotFoundNotRetried ==
    /\ \A p \in Callers :
          ~created => (calls[p].retry = 0 /\ calls[p].waits = <<>>)
    /\ (outcome.step = "getMetadata" /\ outcome.message = NotFoundMessage)
          => outcome.waits = <<>>


\* C23: the error a vector operation surfaces is retryable when the provider
\* kept failing until the retries were used up, and not retryable when the
\* call was rejected by a validation: bad dimensionality, empty or oversized
\* batch, unknown index name.
ValidationRejections ==
    ValidationMessages \cup {"Empty batch", "Batch size exceeds maximum"}

C23_RetryableFlag ==
    result.status = "thrown" =>
        /\ result.error.original \in ValidationRejections
              => ~result.error.retryable
        /\ result.error.original = "Failed to" => result.error.retryable


C25_MissingConversationUntouched ==
    /\ ~created =>
          /\ messages = <<>> /\ metaCount = 0 /\ status = "none"
          /\ summaries = <<>> /\ tasks = {}
          /\ \A p \in Callers : calls[p].pc \in {"idle", "retryMeta"}
    /\ (/\ outcome.op = "add" /\ outcome.step = "getMetadata"
        /\ outcome.message \notin StorageErrors) =>
            (outcome.threw /\ outcome.message = NotFoundMessage)

C25_Witness ==
    /\ ~created
    /\ outcome.op = "add" /\ outcome.threw
    /\ outcome.message = NotFoundMessage
    /\ messages = <<>> /\ metaCount = 0 /\ summaries = <<>>


(***************************************************************************)
(* Properties of the errors of getMetadata.                                *)
(***************************************************************************)
\* C26: a metadata lookup that fails for good fails with "not found" when
\* nothing is stored under the conversation id and with "corrupted" when the
\* node exists without metadata, no call gets past the lookup in either
\* case, and processMessagePair reports the corrupted case as STORAGE_ERROR,
\* never as CONVERSATION_NOT_FOUND.
C26_LookupFailure ==
    (outcome' # outcome /\ outcome'.step = "getMetadata") =>
        /\ outcome'.message = NotFoundMessage <=> ~exists
        /\ outcome'.message = CorruptedMessage <=> (exists /\ ~created)
        /\ (outcome'.op = "pair" /\ outcome'.message = NotFoundMessage)
              => outcome'.type = "CONVERSATION_NOT_FOUND"
        /\ (outcome'.op = "pair" /\ outcome'.message = CorruptedMessage)
              => outcome'.type = "STORAGE_ERROR"

C26_GetMetadataErrors ==
    /\ [](~created =>
            \A p \in Callers : calls[p].pc \in {"idle", "retryMeta"})
    /\ [][C26_LookupFailure]_vars

C26_Witness ==
    /\ ~created /\ Pushed # {}
    /\ outcome.op = "pair" /\ outcome.step = "getMetadata"
    /\ outcome.message = CorruptedMessage
    /\ outcome.type = "STORAGE_ERROR"


(***************************************************************************)
(* Properties of the summaries under overlapping calls.                    *)
(***************************************************************************)
\* C27: however addMessage calls overlap each other or a running summary
\* task, the summaries triggered never outnumber the chunk boundaries the
\* stored messages have passed: no boundary triggers twice.
C27_OneSummaryPerBoundary ==
    Len(triggers) <= Len(messages) \div summaryChunkSize


\* C28: with no tool call among the messages, the "recent" summary produced
\* by the trigger fired at count N covers exactly the messages N-9..N, also
\* when its task runs after later calls have stored messages N+1, N+2, ...
C28_SummaryWindowExact ==
    (\A k \in 1..Len(messages) : ~messages[k].toolCalls) =>
        \A i \in 1..Len(summaries) :
            /\ Len(summaries[i].content) = summaryChunkSize
            /\ Range(summaries[i].content) =
                  (summaries[i].n - summaryChunkSize + 1)..summaries[i].n


(***************************************************************************)
(* Properties of detectTopicChange.                                        *)
(***************************************************************************)
\* C29: detectTopicChange returns true exactly when the current topic could
\* not be loaded or the similarity score is strictly below
\* topicChangeThreshold; a score equal to the threshold is no topic change.
C29_TopicChangeRule ==
    output # <<>> =>
        /\ output[1] = (\/ ~input.loaded
                        \/ input.similarityScore < topicChangeThreshold)
        /\ (input.loaded /\ input.similarityScore = 70) => output[1] = FALSE
        /\ (input.loaded /\ input.similarityScore = 69) => output[1] = TRUE

C29_Witness ==
    /\ input = [loaded |-> TRUE, similarityScore |-> 70]
    /\ output = <<FALSE>>


\* C30: a segment that completeTopicSegment has set to completed is never
\* active again, whatever createTopicSegment, completeTopicSegment and
\* incrementMessageCount calls follow: it stays completed.
C30_Completed(key) == topics[key].status = "completed"

C30_CompletionOneWay ==
    [][\A key \in TopicKeys :
          C30_Completed(key) =>
              /\ topics'[key].status # "active"
              /\ created' = created => topics'[key].status = "completed"]_vars

C30_Witness ==
    /\ topics[1].status = "completed" /\ topics[1].messageCount = 2
    /\ topics[2].status = "active"
    /\ topicCall = [op |-> "incrementMessageCount", topicId |-> 1,
                    outcome |-> "returned"]


(***************************************************************************)
(* Runs for the termination of the calls.  A run uses the vector service   *)
(* or the message processor.  The continuations of a call in progress      *)
(* (resolved or rejected promises, elapsed timers) are run by the event    *)
(* loop whenever they are ready, which is the fairness assumed; the store  *)
(* fails as in NextOutage, the index provider on any call.  The call in    *)
(* which the store goes down is the last one that is started, and the      *)
(* conversation is created between two calls.                              *)
(***************************************************************************)
VectorOnly ==
    /\ ~created
    /\ outcome = NoOutcome
    /\ \A p \in Processes : calls[p].pc = "idle"

ConversationOnly ==
    /\ ~initialized
    /\ vop = NoCall
    /\ result = NoResult

\* entry lists of the batch calls: <<length, bad position>>
GiveUpShapes ==
    {<<1, 0>>, <<3 * CHUNK_SIZE + 1, 0>>, <<3 * CHUNK_SIZE + 1, 1>>}

VectorCallSteps ==
    \/ \E j \in 1..Len(jobs) : withRetry_Resolved(j)
    \/ \E j \in 1..Len(jobs), message \in ProviderErrors :
          withRetry_Rejected(j, message)
    \/ \E j \in 1..Len(jobs) : withRetry_Backoff(j)
    \/ Single_Done
    \/ QueryVectors_Done
    \/ UpsertBatch_WaveDone
    \/ DeleteBatch_Done

MessageCallSteps ==
    \/ \E p \in Callers : GetMetadata_NotFound(p) /\ calls[p].pc # "idle"
    \/ \E p \in Callers : GetMetadata_GiveUp(p)
    \/ \E p \in Callers : StoreUp /\ StoreMessage_Push(p)
    \/ \E p \in Callers : StoreUp /\ StoreMessage_ReadCount(p)
    \/ \E p \in Callers : StoreUp /\ StoreMessage_UpdateCount(p)
    \/ \E p \in Callers : StoreUp /\ Finish(p)
    \/ \E p \in Callers, op \in {"add", "pair"}, message \in StorageErrors :
          ~StoreUp /\ calls[p].pc # "idle" /\ GetMetadata_Throws(p, op, message)
    \/ \E p \in Callers, message \in StorageErrors :
          ~StoreUp /\ StoreMessage_Throws(p, message)
    \/ \E p \in Callers, message \in StorageErrors :
          ~StoreUp /\ UpdateMetadata_Throws(p, message)

NextGiveUp ==
    \/ VectorOnly /\ Initialize
    \/ \E indexName \in IndexNames :
        \/ VectorOnly /\ UpsertVector(indexName, dimensions)
        \/ VectorOnly /\ QueryVectors(indexName, dimensions, <<>>)
        \/ VectorOnly /\ DeleteVector(indexName)
        \/ \E shape \in GiveUpShapes :
              VectorOnly /\ UpsertBatch(indexName, Entries(shape[1], shape[2]))
        \/ \E shape \in GiveUpShapes :
              VectorOnly /\ DeleteBatch(indexName, Entries(shape[1], shape[2]))
    \/ VectorCallSteps
    \/ /\ ConversationOnly /\ StoreUp
       /\ \A p \in Callers : calls[p].pc = "idle"
       /\ CreateSession
    \/ \E p \in Callers :
          ConversationOnly /\ calls[p].pc = "idle" /\ GetMetadata_NotFound(p)
    \/ \E p \in Callers :
          /\ ConversationOnly /\ StoreUp /\ nPair = 0 /\ nAdd < MaxAdds
          /\ calls[p].pc = "idle"
          /\ AddMessage_GetMetadata(p, ExpectedRole(Len(messages) + 1), FALSE)
    \/ \E p \in Callers :
          /\ ConversationOnly /\ StoreUp /\ nAdd = 0 /\ nPair < MaxPairs
          /\ calls[p].pc = "idle"
          /\ ProcessMessagePair_GetMetadata(p)
    \/ \E p \in Callers, message \in StorageErrors :
          /\ ConversationOnly /\ StoreUp /\ nPair = 0 /\ nAdd < MaxAdds
          /\ GetMetadata_Throws(p, "add", message)
    \/ \E p \in Callers, message \in StorageErrors :
          /\ ConversationOnly /\ StoreUp /\ nAdd = 0 /\ nPair < MaxPairs
          /\ GetMetadata_Throws(p, "pair", message)
    \/ \E p \in Callers, message \in StorageErrors :
          StoreUp /\ StoreMessage_Throws(p, message)
    \/ \E p \in Callers, message \in StorageErrors :
          StoreUp /\ UpdateMetadata_Throws(p, message)
    \/ MessageCallSteps

SpecGiveUp ==
    /\ Init
    /\ [][NextGiveUp]_vars
    /\ WF_vars(VectorCallSteps)
    /\ WF_vars(MessageCallSteps)

(***************************************************************************)
(* Properties of deleteBatch and of the batch statistics.                  *)
(***************************************************************************)
\* C31 as claimed: deleteBatch works on chunks of at most CHUNK_SIZE (20)
\* entries, one provider call sequence per chunk, as upsertBatch does.
C31_DeleteBatchChunked ==
    (vop.call.name = "deleteBatch" /\ jobs # <<>>) =>
        /\ Len(jobs) = Len(createBatchChunks(vop.call.lengths))
        /\ \A k \in 1..Len(jobs) : jobs[k].size <= CHUNK_SIZE

\* C31: deleteBatch on a list of 1..MAX_BATCH_SIZE entries is not split into
\* chunks: every attempt is one provider call that names all the entries,
\* retried as a whole, and the returned result is all or nothing: either
\* every entry is counted successful, or every entry is counted failed and
\* errors lists the indices 0..n-1, one entry each.
C31_DeleteBatchSingleCall ==
    /\ (vop.call.name = "deleteBatch" /\ jobs # <<>>) =>
          /\ Len(jobs) = 1
          /\ jobs[1].size = Len(vop.call.lengths)
          /\ jobs[1].startIndex = 0
          /\ providerCalls = jobs[1].attempt
          /\ providerCalls <= maxAttempts
    /\ (result.call.name = "deleteBatch" /\ result.status = "returned") =>
          LET n == Len(result.call.lengths)
              value == result.value
          IN /\ n \in 1..MAX_BATCH_SIZE
             /\ value.stats.totalItems = n
             /\ value.stats.processedItems = n
             /\ IF value.success
                THEN /\ value.stats.successfulItems = n
                     /\ value.stats.failedItems = 0
                     /\ value.errors = <<>>
                ELSE /\ value.stats.successfulItems = 0
                     /\ value.stats.failedItems = n
                     /\ Len(value.errors) = n
                     /\ \A e \in 1..n : value.errors[e].index = e - 1
                     /\ providerCalls = maxAttempts

C31_Witness ==
    /\ result.call.name = "deleteBatch"
    /\ result.status = "returned"
    /\ Len(result.call.lengths) = 3 * CHUNK_SIZE + 1
    /\ ~result.value.success
    /\ result.value.stats.failedItems = 3 * CHUNK_SIZE + 1
    /\ providerCalls = maxAttempts


(***************************************************************************)
(* Properties of the message store under retries and interleavings.        *)
(***************************************************************************)
\* C32: retries append at most once.  When no call has given up (fewer
\* throws than one call needs to fail) and the calls made so far have all
\* returned successfully, the store holds one message per addMessage call
\* and two per processMessagePair call, and messageCount equals the number
\* of stored messages, although store operations have thrown and were
\* retried.
C32_AtMostOnceAppend ==
    (/\ \A p \in Callers : calls[p].pc = "idle"
     /\ nThrown \in 1..maxRetries
     /\ outcome.success) =>
        /\ Len(messages) = nAdd + 2 * nPair
        /\ metaCount = Len(messages)


\* C33: messageCount never over-counts.  In every state of every
\* interleaving of concurrent addMessage and processMessagePair calls on
\* one conversation, without store failures, the persisted messageCount is
\* at most the number of messages stored under the conversation.
C33_NeverOverCounts == metaCount <= Len(messages)

C33_Witness ==
    /\ QuietAll
    /\ nAdd >= 1 /\ nPair >= 1
    /\ Len(messages) = nAdd + 2 * nPair
    /\ metaCount < Len(messages)


\* C34: processMessagePair is all or nothing.  When the first call on a new
\* conversation is a processMessagePair that returns success = FALSE (all
\* the throws of the run were those of this call), no message is stored
\* and messageCount is still 0.
C34_PairAllOrNothing ==
    (/\ outcome.op = "pair" /\ ~outcome.success /\ ~outcome.threw
     /\ created
     /\ nAdd = 0 /\ nPair = 0
     /\ nThrown = maxRetries + 1
     /\ \A p \in Callers : calls[p].pc = "idle") =>
        /\ messages = <<>>
        /\ metaCount = 0


\* C35: upsertBatch on a list of 1..MAX_BATCH_SIZE entries, one of which
\* has a vector of the wrong length.  The chunk that holds the entry makes
\* no provider call and every index of it is reported as failed; every
\* other chunk is sent to the provider; the call returns success = FALSE,
\* and a dimension mismatch is never thrown by the call.
BadChunks(lengths) ==
    {ChunkOf(i) : i \in {i \in 0..(Len(lengths) - 1) :
                            lengths[i + 1] # dimensions}}

C35_BadEntryIsolated ==
    /\ vop.call.name = "upsertBatch" =>
          \A k \in 1..Len(jobs) :
             /\ jobs[k].pc = "invalid" <=>
                    (k \in BadChunks(vop.call.lengths) /\ jobs[k].pc # "pending")
             /\ jobs[k].pc = "invalid" => jobs[k].attempt = 0
             /\ jobs[k].pc \in {"call", "wait", "ok", "failed"} =>
                    jobs[k].attempt >= 1
    /\ (result.call.name = "upsertBatch"
          /\ BadChunks(result.call.lengths) # {}) =>
          /\ result.status = "thrown" =>
                result.error.original # "Vector dimensions mismatch"
          /\ result.status = "returned" =>
                LET outcomes == result.value.outcomes
                    errors == result.value.errors
                    bad == BadChunks(result.call.lengths)
                IN /\ ~result.value.success
                   /\ \A k \in 1..Len(outcomes) :
                         IF k \in bad THEN outcomes[k] = "invalid"
                         ELSE outcomes[k] \in {"ok", "failed"}
                   /\ \A i \in 0..(Len(result.call.lengths) - 1) :
                         ChunkOf(i) \in bad =>
                            \E e \in 1..Len(errors) : errors[e].index = i
                   /\ providerCalls >= Len(outcomes) - Cardinality(bad)

C35_Witness ==
    /\ result.call.name = "upsertBatch"
    /\ result.status = "returned"
    /\ Len(result.call.lengths) = 3 * CHUNK_SIZE + 1
    /\ result.call.lengths[1] # dimensions
    /\ result.value.outcomes = <<"invalid", "ok", "ok", "ok">>
    /\ Len(result.value.errors) = CHUNK_SIZE
    /\ providerCalls = 3


\* C36: the statistics of a batch result are consistent.  In the result
\* returned by upsertBatch or deleteBatch, processedItems = successfulItems
\* + failedItems = totalItems = the number of entries, success is TRUE
\* exactly when failedItems = 0, and errors has failedItems entries; while
\* upsertBatch runs, processedItems never exceeds totalItems.
C36_BatchStatsConsistent ==
    /\ (result.call.name \in {"upsertBatch", "deleteBatch"}
          /\ result.status = "returned") =>
          LET stats == result.value.stats IN
          /\ stats.processedItems = stats.successfulItems + stats.failedItems
          /\ stats.processedItems = stats.totalItems
          /\ stats.totalItems = Len(result.call.lengths)
          /\ result.value.success <=> stats.failedItems = 0
          /\ Len(result.value.errors) = stats.failedItems
    /\ vop.call.name = "upsertBatch" =>
          /\ vop.stats.totalItems = Len(vop.call.lengths)
          /\ vop.stats.processedItems <= vop.stats.totalItems
          /\ vop.stats.processedItems
                = vop.stats.successfulItems + vop.stats.failedItems

C36_Witness ==
    /\ vop.call.name = "upsertBatch"
    /\ vop.stats.totalItems = MAX_BATCH_SIZE
    /\ vop.stats.processedItems = 3 * CHUNK_SIZE
    /\ vop.stats.failedItems = 2 * CHUNK_SIZE
    /\ result.status = "none"


(***************************************************************************)
(* Properties of the retry loops.                                          *)
(***************************************************************************)
\* C37: the retry loop of the vector service stops at the first success.
\* A loop whose provider call resolves on attempt k has made k calls and
\* k - 1 waits and carries no error; from then on it makes no call and no
\* wait until the operation returns, and upsertVector, deleteVector and
\* queryVectors then return, without an error, what that attempt
\* delivered, after exactly k provider calls.
C37_Succeeded(j) == j \in 1..Len(jobs) /\ jobs[j].pc = "ok"

C37_SuccessState ==
    \A j \in 1..Len(jobs) : C37_Succeeded(j) =>
        /\ jobs[j].attempt \in 1..maxAttempts
        /\ Len(jobs[j].waits) = jobs[j].attempt - 1
        /\ jobs[j].err = NoError
        /\ Len(jobs) = 1 => providerCalls = jobs[j].attempt

C37_SuccessStep ==
    \A j \in 1..Len(jobs) : C37_Succeeded(j) =>
        \/ /\ Len(jobs') = Len(jobs)
           /\ jobs'[j] = jobs[j]
           /\ Len(jobs) = 1 => providerCalls' = providerCalls
        \/ /\ jobs' = <<>>
           /\ providerCalls' = providerCalls
           /\ vop.call.name \in {"upsertVector", "deleteVector", "queryVectors"} =>
                 /\ result'.status = "returned"
                 /\ result'.error = NoError
                 /\ result'.call = vop.call
                 /\ vop.call.name = "queryVectors" =>
                       result'.value.response = jobs[j].scores

C37_StopsAtFirstSuccess == []C37_SuccessState /\ [][C37_SuccessStep]_vars

C37_Witness ==
    /\ result.call.name = "queryVectors"
    /\ result.status = "returned"
    /\ result.value.response = <<95, 70, 69>>
    /\ providerCalls = 2
    /\ vop = NoCall


\* C38: every call gives up after a bounded number of attempts.  A retry
\* loop of the vector service makes at most maxAttempts provider calls, a
\* step of addMessage or processMessagePair is run at most maxRetries + 1
\* times, and, the store or the provider failing or not, every vector
\* operation and every addMessage or processMessagePair call that was
\* started comes to its end, by returning or by surfacing an error.
C38_AttemptsBounded ==
    /\ \A j \in 1..Len(jobs) :
          /\ jobs[j].attempt <= maxAttempts
          /\ Len(jobs[j].waits) < maxAttempts
    /\ providerCalls <= maxAttempts * Len(jobs) \/ jobs = <<>>
    /\ \A p \in Callers :
          /\ calls[p].retry <= maxRetries
          /\ Len(calls[p].waits) <= maxRetries

C38_BoundedGiveUp ==
    /\ []C38_AttemptsBounded
    /\ (vop # NoCall) ~> (vop = NoCall /\ result.status \in {"returned", "thrown"})
    /\ \A p \in Callers :
          (calls[p].pc # "idle") ~> (calls[p].pc = "idle" /\ outcome # NoOutcome)

C38_Witness ==
    /\ outcome.op = "add" /\ outcome.threw
    /\ outcome.step = "updateMetadata"
    /\ Len(outcome.waits) = maxRetries
    /\ nThrown = maxRetries + 1
    /\ calls[1].pc = "idle"


(***************************************************************************)
(* Frame properties.                                                       *)
(***************************************************************************)
\* C39: incrementMessageCount(conversationId, topicId) adds exactly 1 to
\* the stored messageCount of the topic and changes no other field of it
\* and no other topic; when no topic is stored under topicId it writes
\* nothing, and no topic record appears.  (A node that holds no
\* messageCount, left by completeTopicSegment on an id that was never
\* stored, is not written either: the update is rejected.)
C39_IncrementStep ==
    (topicCall'.op = "incrementMessageCount" /\ created' = created) =>
        LET topicId == topicCall'.topicId IN
        /\ \A key \in TopicKeys \ {topicId} : topics'[key] = topics[key]
        /\ topics[topicId].status = "none" =>
              /\ topics' = topics
              /\ topicCall'.outcome = "no topic"
        /\ (topics[topicId].status # "none" /\ topics[topicId].hasCount) =>
              /\ topics'[topicId].messageCount
                    = topics[topicId].messageCount + 1
              /\ topics'[topicId] = [topics[topicId] EXCEPT
                    !.messageCount = topics'[topicId].messageCount]
              /\ topicCall'.outcome = "returned"
        /\ (topics[topicId].status # "none" /\ ~topics[topicId].hasCount) =>
              /\ topics' = topics
              /\ topicCall'.outcome = "threw"

C40_CompleteStep ==
    status' # status =>
        \/ status = "none" /\ status' = "active" /\ ~created
        \/ /\ status = "active" /\ status' = "completed"
           /\ metaCount' = metaCount
           /\ session' = session
           /\ messages' = messages
           /\ summaries' = summaries
           /\ created' = created
           /\ calls' = calls

C40_SessionKept ==
    created => session = [userId |-> UserId, startTime |-> 0]

C40_CompleteSessionFrame == []C40_SessionKept /\ [][C40_CompleteStep]_vars

C40_Witness ==
    /\ status = "completed"
    /\ metaCount = 2 /\ Len(messages) = 3
    /\ session.userId = UserId
    /\ \E p \in Processes : calls[p].pc = "csUpdate" /\ calls[p].cs = 2

====
